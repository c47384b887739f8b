--------------------------- MODULE MCChunkedFile ----------------------------
(***************************************************************************)
(* Instances of ChunkedFile for TLC.                                       *)
(***************************************************************************)
EXTENDS ChunkedFile

(* The operations of AiryFS: mounts through the compound functions of the  *)
(* object, the Worker through its handles and writeFile.  None reads a     *)
(* size outside its transaction.                                           *)
NextRemote == \E c \in Client :
    \/ \E off \in 0..(MaxSize - 1), src \in Datum :
          Fits(off, src) /\ (GuestWrite(c, off, src) \/ WorkerWrite(c, off, src))
    \/ \E src \in Datum \cup {<<>>} : WriteFile(c, src)
    \/ \E n \in 0..MaxSize : GuestTruncate(c, n) \/ WorkerTruncate(c, n)

SpecRemote == Init /\ [][NextRemote]_vars
=============================================================================
