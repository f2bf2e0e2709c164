---------------------------- MODULE HandshakeMC ----------------------------
(* Small instances of Handshake for TLC.                                      *)
EXTENDS Handshake

\* What a peer and a server may be: without the kernel, of another release or version, and
\* with other modules or mods: more, fewer, another version, another order, one twice, more
\* than the comparison keeps, with an id it cuts.
Entry(i, v) == [id |-> i, version |-> v]
Node(k, r, v, m, o) == [kernel |-> k, release |-> r, version |-> v, modules |-> m, mods |-> o]
A1 == Entry("a", 1)
A2 == Entry("a", 2)
B1 == Entry("b", 1)
M1 == <<Entry("m", 1)>>
PeerChoice == {Node(FALSE, 1, 0, <<>>, <<>>), Node(FALSE, 2, 0, <<>>, <<>>), Node(TRUE, 1, 1, M1, <<A1>>),
               Node(TRUE, 2, 1, M1, <<A1>>), Node(TRUE, 1, 2, M1, <<A1>>), Node(TRUE, 1, 1, <<Entry("m", 2)>>, <<A1>>),
               Node(TRUE, 1, 1, M1, <<A2>>), Node(TRUE, 1, 1, M1, <<B1, A1>>), Node(TRUE, 1, 1, M1, <<A1, A1>>),
               Node(TRUE, 1, 1, M1 \o M1, <<A1>>), Node(TRUE, 1, 1, M1, <<A1, B1, Entry("c", 1)>>),
               Node(TRUE, 1, 1, M1, <<Entry("long", 1)>>), Node(TRUE, 1, 1, M1, <<>>), Node(TRUE, 1, 1, <<>>, <<>>)}
ServerChoice == {Node(TRUE, 1, 1, M1, <<A1>>), Node(TRUE, 1, 1, M1, <<A1, B1>>), Node(TRUE, 1, 1, <<>>, <<>>),
                 Node(TRUE, 1, 1, M1, <<A1, A2>>)}
=============================================================================
