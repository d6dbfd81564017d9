--------------------------- MODULE MCMetadataQueue ---------------------------
(***************************************************************************)
(* One token that changes, with faults, or two tokens for one slice.       *)
(***************************************************************************)
EXTENDS MetadataQueue

CONSTANTS t1, t2, w1

Bounds(kind, versions, jobs, throws_, crashes_) ==
    [kind |-> kind, versions |-> versions, jobs |-> jobs,
     throws |-> throws_, crashes |-> crashes_]

Scenarios == {Bounds("metadata", t1 :> 2, 2, 2, 1),
              Bounds("backpack", t1 :> 1, 2, 2, 1),
              Bounds("metadata", t1 :> 1 @@ t2 :> 1, 1, 0, 1),
              Bounds("backpack", t1 :> 1 @@ t2 :> 1, 1, 0, 1)}
OneRefresh == {Bounds("metadata", t1 :> 1, 1, 0, 0)}
=============================================================================
