------------------------------ MODULE MCGateway ------------------------------
(***************************************************************************)
(* A gateway with a client for the chain c1 and none for c2.  What is      *)
(* packed in the data is one byte below the limit on c1, and begins as     *)
(* gzip data in its turn; on c2 it is at the limit.  A file of c2 may be   *)
(* left from an earlier run, when c2 was enabled.  The requests: a file;   *)
(* the same file under no key; the same transaction of c2, under a key     *)
(* that has capitals; another transaction, which the key does not open; a  *)
(* malformed transaction id.                                               *)
(***************************************************************************)
EXTENDS Gateway, TLC

CONSTANTS c1, c2, t1, t2, e1, e2, eMixed, n1

MCReadable == {<<c1, t1, e1>>, <<c1, t1, e2>>, <<c2, t1, e1>>}
MCPacking ==
    [ct \in Chain \X Txid |->
        [size |-> 2, gzip |-> TRUE, header |-> TRUE, end |-> "eof", inner |-> ct[1] = c1,
         pieces |-> IF ct[1] = c1 THEN <<2, 1>> ELSE <<2, 2>>]]
Ask(op, chain, txid, evk, name) ==
    [op |-> op, chain |-> chain, txid |-> txid, evk |-> evk, name |-> name]

MCKept == {Stored(NewFile(Ask("GET", c2, t1, e1, None)))}

MCRequest ==
    {Ask("GET", c1, t1, e1, n1), Ask("META", c2, t1, eMixed, None), Ask("HEAD", c1, t1, None, None),
     Ask("GET", c1, t2, e1, None), Ask("GET", c1, Bad, e1, None)}

\* Two viewing keys that both open the same transaction.
MCTwoKeys == {Ask("GET", c1, t1, e1, None), Ask("GET", c1, t1, e2, None)}

\* Data in up to four pieces, around the limit of four bytes.
MCDecrypted == Data({2}, UNION {[1 .. n -> 1 .. 5] : n \in 0 .. 4})
=============================================================================
