------------------------------ MODULE BlockDevice ------------------------------
(***************************************************************************)
(* What SATAPort::Read and SATAPort::Write promise their callers: the disk *)
(* is an array of sectors; a Write of n sectors from LBA a replaces them   *)
(* with the caller's buffer, and a Read of n sectors from a fills the      *)
(* buffer with their current contents or fails (returns false, NIL here).  *)
(* The write-back cache in front of the disk is invisible at this level.   *)
(* req is the call being served, so that each step answers the caller's   *)
(* request; Close is the port's destruction, which changes no sector.     *)
(***************************************************************************)
EXTENDS Integers

CONSTANTS LBAs, Data, MaxSectors, NIL

VARIABLES contents, result, req

Req(op, a, n, buf) == [op |-> op, a |-> a, n |-> n, buf |-> buf]

Requests == {r \in [a : LBAs, n : 1 .. MaxSectors] : r.a + r.n - 1 \in LBAs}

Init == contents \in [LBAs -> Data] /\ result = NIL /\ req = NIL

Read(a, n) ==
    /\ result' = [i \in 0 .. n - 1 |-> contents[a + i]]
    /\ req' = Req("read", a, n, NIL)
    /\ UNCHANGED contents

ReadFails(a, n) ==
    /\ result' = NIL /\ req' = Req("read", a, n, NIL)
    /\ UNCHANGED contents

Write(a, n, buf) ==
    /\ contents' = [s \in LBAs |-> IF a <= s /\ s < a + n THEN buf[s - a]
                                   ELSE contents[s]]
    /\ req' = Req("write", a, n, buf)
    /\ UNCHANGED result

Close == req' = Req("close", NIL, NIL, NIL) /\ UNCHANGED <<contents, result>>

Next ==
    \/ \E r \in Requests : Read(r.a, r.n)
    \/ \E r \in Requests : ReadFails(r.a, r.n)
    \/ \E r \in Requests : \E buf \in [0 .. r.n - 1 -> Data] : Write(r.a, r.n, buf)
    \/ Close

Spec == Init /\ [][Next]_<<contents, result, req>>
=============================================================================
