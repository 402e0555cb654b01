----------------------------- MODULE AssetBudget -----------------------------
(***************************************************************************)
(* What media.Cache promises addBundle about the directory it fills: the   *)
(* bytes in it never pass a peak; and when Cache returns they are no more  *)
(* than the TotalBytes it reports, which are within the transcript's       *)
(* limit. addBundle subtracts TotalBytes from the bytes it reserved and    *)
(* gives the rest to the export files. MediaCache implements this module,  *)
(* Exports runs it once for every export.                                  *)
(***************************************************************************)
EXTENDS Naturals

CONSTANTS TotalLimit, Peak   \* numbers, Peak not below TotalLimit

VARIABLE budget

\* running: Cache has not returned; booked: TotalBytes.
Budget == [running : BOOLEAN, onDisk : 0..Peak, booked : 0..TotalLimit]

\* Nothing is downloaded yet; with nothing to fetch Cache returns at once.
Fresh == {b \in Budget : b.onDisk = 0 /\ b.booked = 0}

Downloads(b) == {c \in Budget : b.running /\ c.running /\ b.booked <= c.booked}

Returns(b) == {c \in Budget : b.running /\ ~c.running /\ b.booked <= c.booked
                              /\ c.onDisk <= c.booked}

Init == budget \in Fresh

Next == budget' \in Downloads(budget) \cup Returns(budget)

Spec == Init /\ [][Next]_budget
===============================================================================
