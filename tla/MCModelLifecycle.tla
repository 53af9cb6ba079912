--------------------------- MODULE MCModelLifecycle ----------------------------
(***************************************************************************)
(* Two detectors; two trainings of the first with different features, one  *)
(* of the second.                                                          *)
(***************************************************************************)
EXTENDS ModelLifecycle, TLC

CONSTANTS anomaly, supervised,  \* the detectors
          a1, a2, s1,           \* the trainings
          wide, narrow          \* the schemas of their rows

MCDetectors == <<anomaly, supervised>>
MCTrains == (a1 :> anomaly) @@ (a2 :> anomaly) @@ (s1 :> supervised)
MCSchemaOf == (a1 :> wide) @@ (a2 :> narrow) @@ (s1 :> wide)

===============================================================================
