---------------------------- MODULE MCChatGateway ----------------------------
(* Connections a1, a2, a3 are tabs of alice and b1 of alice:b.  hello and Hello *)
(* are the same text once normalized; b:hello asked by alice makes the cache    *)
(* key that hello makes for alice:b.                                            *)
EXTENDS ChatGateway

CONSTANTS a1, a2, a3, b1, hello, Hello, bHello

alice == <<"alice">>
aliceB == <<"alice", ":", "b">>

MCUsers == {UserOf[c] : c \in Conns}

MCUserOf == [c \in Conns |-> IF c = b1 THEN aliceB ELSE alice]

MCNormalize ==
    [q \in Queries |-> IF q = bHello THEN <<"b", ":", "hello">> ELSE <<"hello">>]

==============================================================================
