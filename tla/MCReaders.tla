----------------------------- MODULE MCReaders -----------------------------
(* Small instances of WaitFor and Listings, over one queue, for TLC. *)
EXTENDS WaitFor, Listings

CONSTANTS t1, t2, w1

Sorted == <<t1, t2>>
SortedOne == <<t1>>

(* The two readers do not affect each other: each behaviour has one of them. *)
ReadersInit ==
  /\ Init /\ WaitInit /\ ListingInit
  /\ \/ pending = Tasks /\ page = None
     \/ pending = {} /\ page = 0

ReadersNext ==
  \/ Poll /\ UNCHANGED <<vars, listingVars>>
  \/ Lister /\ UNCHANGED <<vars, waitVars>>
  \/ Next /\ Witnessed /\ UNCHANGED waitVars

ReadersVars == <<vars, waitVars, listingVars>>

(* Whoever reads the stream goes on asking for its next item. *)
ReadersSpec == ReadersInit /\ [][ReadersNext]_ReadersVars /\ WF_waitVars(Poll)
=============================================================================
