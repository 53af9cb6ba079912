---------------------------- MODULE ModelLifecycle -----------------------------
(***************************************************************************)
(* The trained models of backend/detection/engine.py: the Isolation Forest *)
(* (backend/anomaly/isolation_forest.py) and the Random Forest             *)
(* (ml/models/supervised.py).  Training requests run in threads of the     *)
(* pool, while the event loop scores events with the same two objects; a   *)
(* training ends by writing BOTH models to their files, in place, and the  *)
(* files are loaded when the process starts.                               *)
(*                                                                         *)
(* A detector is two fields that must belong together, the feature names   *)
(* and the fitted model, and a flag.  Of a feature vector only its schema  *)
(* matters: which names the rows of a training had.                        *)
(***************************************************************************)
EXTENDS Integers, Sequences

CONSTANTS Detectors,  \* the detectors, in the order save_models takes them
          Trainings,  \* calls of POST /anomaly/fit and /supervised/fit
          Trains,     \* the detector a training is for
          SchemaOf,   \* the schema of its rows
          None,       \* no names, no model, no file
          Partial     \* a model in the middle of a fit, a file half written

Names == {Detectors[i] : i \in DOMAIN Detectors}
Schemas == {SchemaOf[t] : t \in Trainings}

ASSUME ModelAssumption ==
  /\ Detectors \in Seq(Names)
  /\ \A i, j \in DOMAIN Detectors : Detectors[i] = Detectors[j] => i = j
  /\ Trains \in [Trainings -> Names]
  /\ SchemaOf \in [Trainings -> Schemas]
  /\ None \notin Schemas /\ Partial \notin Schemas /\ None # Partial
  /\ {None, Partial} \cap [names : Schemas, model : Schemas \cup {Partial}] = {}

VARIABLES status,    \* "up", "down", or "failed": load_models raised at import
          names,     \* feature_names of each detector
          model,     \* the schema its model was fitted on
          fitted,    \* its flag
          file,      \* its file: None, Partial, or [names, model]
          pc,        \* where each training is
          at,        \* which detector its save_models has come to
          held,      \* the schema it fits on, then the names it is writing
          clash,     \* trainings whose model or file another works on as well
          scoring,   \* <<[det, names]>> while an event is being scored
          spoiled,   \* history: detectors that scored with names of another fit
          refitted,  \* history: detectors trained again, or twice at once
          calm       \* history: the last training ran alone and returned

memory == <<names, model, fitted>>
saves == <<at, held, clash>>
modelVars == <<status, memory, file, pc, saves, scoring, spoiled, refitted, calm>>

ModelInit ==
  /\ status = "up"
  /\ names = [d \in Names |-> None]
  /\ model = [d \in Names |-> None]
  /\ fitted = [d \in Names |-> FALSE]
  /\ file = [d \in Names |-> None]
  /\ pc = [t \in Trainings |-> "new"]
  /\ at = [t \in Trainings |-> 1]
  /\ held = [t \in Trainings |-> None]
  /\ clash = {}
  /\ scoring = <<>>
  /\ spoiled = {} /\ refitted = {}
  /\ calm = FALSE

Running(t) == pc[t] \in {"named", "fitting", "saving", "writing"}
OthersRunning(t) == \E u \in Trainings \ {t} : Running(u)

\* The detector whose file training t is about to write, or writes.
Saved(t) == Detectors[at[t]]

-------------------------------------------------------------------------------
(* fit *)

\* The request got past its checks; fit begins with the feature names.
FitNames(t) ==
  /\ status = "up" /\ pc[t] = "new"
  /\ pc' = [pc EXCEPT ![t] = "named"]
  /\ names' = [names EXCEPT ![Trains[t]] = SchemaOf[t]]
  /\ refitted' =
       IF \/ fitted[Trains[t]]
          \/ \E u \in Trainings \ {t} : Running(u) /\ Trains[u] = Trains[t]
       THEN refitted \cup {Trains[t]} ELSE refitted
  /\ calm' = ~OthersRunning(t)
  /\ UNCHANGED <<status, model, fitted, file, saves, scoring, spoiled>>

\* What the rows become: vectors in the order of the names as they are by now, which
\* another training of the detector may have replaced, halfway even.
Matrices(t) ==
  {names[Trains[t]]} \cup (IF names[Trains[t]] = SchemaOf[t] THEN {} ELSE {Partial})

\* The trainings that work on the model training t is about to fit.
Fitters(t) ==
  {u \in Trainings \ {t} : pc[u] = "fitting" /\ Trains[u] = Trains[t]}

\* Variant for the mutation runs: the flag is set before the fit.
FitFlagged(t) ==
  /\ status = "up" /\ pc[t] = "named"
  /\ pc' = [pc EXCEPT ![t] = "fitting"]
  /\ \E x \in Matrices(t) : held' = [held EXCEPT ![t] = x]
  /\ model' = [model EXCEPT ![Trains[t]] = Partial]
  /\ fitted' = [fitted EXCEPT ![Trains[t]] = TRUE]
  /\ clash' = IF Fitters(t) = {} THEN clash ELSE clash \cup Fitters(t) \cup {t}
  /\ UNCHANGED <<status, names, file, at, scoring, spoiled, refitted, calm>>

\* model.fit works on the model in place.
FitModel(t) ==
  /\ status = "up" /\ pc[t] = "named"
  /\ pc' = [pc EXCEPT ![t] = "fitting"]
  /\ \E x \in Matrices(t) : held' = [held EXCEPT ![t] = x]
  /\ model' = [model EXCEPT ![Trains[t]] = Partial]
  /\ clash' = IF Fitters(t) = {} THEN clash ELSE clash \cup Fitters(t) \cup {t}
  /\ UNCHANGED <<status, names, fitted, file, at, scoring, spoiled, refitted, calm>>

\* The model is whole again, or a mixture after two fits at once, and only now does
\* the detector count as fitted.
FitReturns(t) ==
  /\ status = "up" /\ pc[t] = "fitting"
  /\ pc' = [pc EXCEPT ![t] = "saving"]
  /\ \E m \in {held[t]} \cup (IF t \in clash THEN {Partial} ELSE {}) :
       model' = [model EXCEPT ![Trains[t]] = m]
  /\ fitted' = [fitted EXCEPT ![Trains[t]] = TRUE]
  /\ clash' = clash \ {t}
  /\ UNCHANGED <<status, names, file, at, held, scoring, spoiled, refitted, calm>>

\* Rows that cannot be converted, or a fit that fails halfway: the new names stay
\* with the model as it is then, and nothing is saved.
FitRaises(t) ==
  /\ status = "up" /\ pc[t] \in {"named", "fitting"}
  /\ pc' = [pc EXCEPT ![t] = "ended"]
  /\ calm' = FALSE
  /\ clash' = clash \ {t}
  /\ UNCHANGED <<status, memory, file, at, held, scoring, spoiled, refitted>>

-------------------------------------------------------------------------------
(* save_models *)

\* Variant for the mutation runs: only the detector that was trained is saved.
SaveSkipsOthers(t) ==
  /\ status = "up" /\ pc[t] = "saving" /\ at[t] \in DOMAIN Detectors
  /\ Saved(t) # Trains[t]
  /\ at' = [at EXCEPT ![t] = @ + 1]
  /\ UNCHANGED <<status, memory, file, pc, held, clash, scoring, spoiled, refitted, calm>>

\* A detector that is not fitted has nothing to save.
SaveSkips(t) ==
  /\ status = "up" /\ pc[t] = "saving" /\ at[t] \in DOMAIN Detectors
  /\ ~fitted[Saved(t)]
  /\ at' = [at EXCEPT ![t] = @ + 1]
  /\ UNCHANGED <<status, memory, file, pc, held, clash, scoring, spoiled, refitted, calm>>

\* joblib.dump: the record is built, and the file is opened and truncated.
SaveOpens(t) ==
  /\ status = "up" /\ pc[t] = "saving" /\ at[t] \in DOMAIN Detectors
  /\ fitted[Saved(t)]
  /\ pc' = [pc EXCEPT ![t] = "writing"]
  /\ held' = [held EXCEPT ![t] = names[Saved(t)]]
  /\ file' = [file EXCEPT ![Saved(t)] = Partial]
  /\ LET writers == {u \in Trainings \ {t} : pc[u] = "writing" /\ Saved(u) = Saved(t)}
     IN  clash' = IF writers = {} THEN clash ELSE clash \cup writers \cup {t}
  /\ UNCHANGED <<status, memory, at, scoring, spoiled, refitted, calm>>

\* The record is written with the model as it is by then.  Two writers at once may
\* leave either record or a mixture.
SaveWrites(t) ==
  /\ status = "up" /\ pc[t] = "writing"
  /\ pc' = [pc EXCEPT ![t] = "saving"]
  /\ \E content \in {[names |-> held[t], model |-> model[Saved(t)]]}
                    \cup (IF t \in clash THEN {Partial} ELSE {}) :
       file' = [file EXCEPT ![Saved(t)] = content]
  /\ at' = [at EXCEPT ![t] = @ + 1]
  /\ clash' = clash \ {t}
  /\ UNCHANGED <<status, memory, held, scoring, spoiled, refitted, calm>>

\* The disk is full: the file stays half written and the request fails.
SaveRaises(t) ==
  /\ status = "up" /\ pc[t] = "writing"
  /\ pc' = [pc EXCEPT ![t] = "ended"]
  /\ calm' = FALSE
  /\ clash' = clash \ {t}
  /\ UNCHANGED <<status, memory, file, at, held, scoring, spoiled, refitted>>

\* Both detectors are dealt with: the request is answered.
SaveReturns(t) ==
  /\ status = "up" /\ pc[t] = "saving" /\ at[t] \notin DOMAIN Detectors
  /\ pc' = [pc EXCEPT ![t] = "ended"]
  /\ UNCHANGED <<status, memory, file, saves, scoring, spoiled, refitted, calm>>

-------------------------------------------------------------------------------
(* analyze, on the event loop *)

\* A fitted detector orders the features of the event by its names.
ScoreReads(d) ==
  /\ status = "up" /\ scoring = <<>>
  /\ fitted[d]
  /\ scoring' = <<[det |-> d, names |-> names[d]]>>
  /\ UNCHANGED <<status, memory, file, pc, saves, spoiled, refitted, calm>>

\* The vector is passed to the model, which raises or answers nonsense when it was
\* fitted on other features or is not whole.
ScoreUses ==
  /\ status = "up" /\ scoring # <<>>
  /\ scoring' = <<>>
  /\ spoiled' = IF model[scoring[1].det] = scoring[1].names THEN spoiled
                ELSE spoiled \cup {scoring[1].det}
  /\ UNCHANGED <<status, memory, file, pc, saves, refitted, calm>>

-------------------------------------------------------------------------------
(* The process *)

\* It dies; a file that was being written stays half written.
Crash ==
  /\ status = "up"
  /\ status' = "down"
  /\ names' = [d \in Names |-> None]
  /\ model' = [d \in Names |-> None]
  /\ fitted' = [d \in Names |-> FALSE]
  /\ pc' = [t \in Trainings |-> IF Running(t) THEN "ended" ELSE pc[t]]
  /\ calm' = (calm /\ ~\E t \in Trainings : Running(t))
  /\ clash' = {} /\ scoring' = <<>>
  /\ UNCHANGED <<file, at, held, spoiled, refitted>>

\* Variant for the mutation runs: the flags are set whether or not a file is there.
LoadFlagsAll ==
  /\ status = "down"
  /\ \A d \in Names : file[d] # Partial
  /\ status' = "up"
  /\ names' = [d \in Names |-> IF file[d] = None THEN None ELSE file[d].names]
  /\ model' = [d \in Names |-> IF file[d] = None THEN None ELSE file[d].model]
  /\ fitted' = [d \in Names |-> TRUE]
  /\ UNCHANGED <<file, pc, saves, scoring, spoiled, refitted, calm>>

\* load_models at import: every file that is there is loaded.
Load ==
  /\ status = "down"
  /\ \A d \in Names : file[d] # Partial
  /\ status' = "up"
  /\ names' = [d \in Names |-> IF file[d] = None THEN None ELSE file[d].names]
  /\ model' = [d \in Names |-> IF file[d] = None THEN None ELSE file[d].model]
  /\ fitted' = [d \in Names |-> file[d] # None]
  /\ UNCHANGED <<file, pc, saves, scoring, spoiled, refitted, calm>>

\* A half-written file: joblib.load raises, and the API does not start.
LoadRaises ==
  /\ status = "down"
  /\ \E d \in Names : file[d] = Partial
  /\ status' = "failed"
  /\ UNCHANGED <<memory, file, pc, saves, scoring, spoiled, refitted, calm>>

ModelNext ==
  \/ \E t \in Trainings :
       \/ FitNames(t) \/ FitModel(t) \/ FitReturns(t) \/ FitRaises(t)
       \/ SaveSkips(t) \/ SaveOpens(t) \/ SaveWrites(t)
       \/ SaveRaises(t) \/ SaveReturns(t)
  \/ \E d \in Names : ScoreReads(d)
  \/ ScoreUses
  \/ Crash \/ Load \/ LoadRaises

ModelSpec == ModelInit /\ [][ModelNext]_modelVars

-------------------------------------------------------------------------------
(* Properties *)

\* A detector that is flagged has names and a model, whole or not, and so has one
\* that a training is writing; a file that is there has both (fit, load).
ModelsTypeOK ==
  /\ status \in {"up", "down", "failed"}
  /\ names \in [Names -> Schemas \cup {None}]
  /\ model \in [Names -> Schemas \cup {None, Partial}]
  /\ fitted \in [Names -> BOOLEAN]
  /\ \A d \in Names : fitted[d] => names[d] # None /\ model[d] # None
  /\ file \in [Names -> [names : Schemas, model : Schemas \cup {Partial}] \cup {None, Partial}]
  /\ pc \in [Trainings -> {"new", "named", "fitting", "saving", "writing", "ended"}]
  /\ at \in [Trainings -> 1..Len(Detectors) + 1]
  /\ held \in [Trainings -> Schemas \cup {None, Partial}]
  /\ \A t \in Trainings : pc[t] = "writing" => at[t] \in DOMAIN Detectors /\ fitted[Saved(t)]
  /\ clash \subseteq {t \in Trainings : pc[t] \in {"fitting", "writing"}}
  /\ Len(scoring) \leq 1
  /\ spoiled \subseteq Names /\ refitted \subseteq Names
  /\ calm \in BOOLEAN

\* The first training of a detector can be seen by no event: an event is scored with
\* names and model that do not belong together only where the detector was trained
\* again, or twice at once, also through a file written meanwhile (fit, score).
SpoiledNeedsRefit == spoiled \subseteq refitted

\* When the last training ran alone and was answered, the API starts again after
\* any crash, and the files are what the process has in memory, the other
\* detector's included, whatever trainings before it failed, raced or died with a
\* process: only a training that did so leaves a file that is half written, or that
\* of another training (save_models, load_models).
SavedWhenCalm ==
  calm =>
    /\ status # "failed"
    /\ status = "up" /\ ~(\E t \in Trainings : Running(t)) =>
         \A d \in Names : fitted[d] => file[d] = [names |-> names[d], model |-> model[d]]

===============================================================================
