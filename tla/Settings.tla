------------------------------ MODULE Settings ------------------------------
(***************************************************************************)
(* The builder of analysis settings (src/src/settings.cc) and the two      *)
(* programs that drive it one setter after the other: the reader of a      *)
(* project file (src/src/project.cc) and the command line                  *)
(* (src/src/scram.cc).  A setter may change other settings, may throw a    *)
(* SettingsError, and one of them is noexcept, so that an exception inside *)
(* it terminates the program.                                              *)
(***************************************************************************)
EXTENDS Integers, TLAPS

CONSTANT TimeSteps   \* the time steps a user may ask for; 0 disables them

ASSUME TimeStepsAssumption == TimeSteps \subseteq Int /\ 0 \in TimeSteps

VARIABLES
  settings,   \* the Settings object under construction
  fault,      \* "none", "thrown" (SettingsError) or "terminated"
  phase,      \* the next option the running program looks at
  project,    \* the settings as the project file left them
  given       \* the command-line options of this run that were processed

vars == <<settings, fault, phase, project, given>>

Algorithms == {"bdd", "zbdd", "mocus"}
Approximations == {"none", "rare-event", "mcub"}
Faults == {"none", "thrown", "terminated"}

Phases == {"algorithm", "prime-implicants", "approximation", "limits",
           "probability", "importance", "uncertainty", "ccf", "sil",
           "cli-algorithm", "cli-prime-implicants", "cli-approximation",
           "cli-time-step", "cli-sil", "cli-probability", "cli-importance",
           "cli-uncertainty", "cli-ccf", "ready"}

Options == {"algorithm", "prime-implicants", "approximation", "time-step",
            "sil", "probability", "importance", "uncertainty", "ccf"}

SettingsType ==
  [algorithm : Algorithms, approximation : Approximations,
   prime_implicants : BOOLEAN, time_step : {t \in TimeSteps : t >= 0}, sil : BOOLEAN,
   probability : BOOLEAN, importance : BOOLEAN, uncertainty : BOOLEAN,
   ccf : BOOLEAN]

DefaultSettings ==
  [algorithm |-> "bdd", approximation |-> "none", prime_implicants |-> FALSE,
   time_step |-> 0, sil |-> FALSE, probability |-> FALSE,
   importance |-> FALSE, uncertainty |-> FALSE, ccf |-> FALSE]

-----------------------------------------------------------------------------
(* The setters, as relations between the settings before and after a call. *)

Normally(s) == settings' = s /\ fault' = "none"
Throws == settings' = settings /\ fault' = "thrown"

(* Prime implicants keep any approximation but "none" out. *)
SetApproximation(value) ==
  IF value # "none" /\ settings.prime_implicants
  THEN Throws
  ELSE Normally([settings EXCEPT !.approximation = value])

(* noexcept: the default approximation of a cut-set algorithm is set       *)
(* before the prime implicants are cancelled, and an exception thrown by   *)
(* approximation() ends the program.                                       *)
SetAlgorithm(value) ==
  LET chosen == [settings EXCEPT !.algorithm = value] IN
  \/ /\ value = "bdd"
     /\ Normally([chosen EXCEPT !.approximation = "none"])
  \/ /\ value # "bdd"
     /\ settings.approximation = "none"
     /\ settings.prime_implicants
     /\ settings' = chosen
     /\ fault' = "terminated"
  \/ /\ value # "bdd"
     /\ settings.approximation = "none" => ~settings.prime_implicants
     /\ Normally([chosen EXCEPT !.prime_implicants = FALSE,
                    !.approximation = IF @ = "none" THEN "rare-event" ELSE @])

(* Seeded defect: the check of the algorithm is missing. *)
SetPrimeImplicantsOnAnyAlgorithm(flag) ==
  Normally([settings EXCEPT !.prime_implicants = flag,
              !.approximation = IF flag THEN "none" ELSE @])

SetPrimeImplicants(flag) ==
  IF flag /\ settings.algorithm # "bdd"
  THEN Throws
  ELSE Normally([settings EXCEPT !.prime_implicants = flag,
                   !.approximation = IF flag THEN "none" ELSE @])

SetTimeStep(time) ==
  IF time < 0 \/ (time = 0 /\ settings.sil)
  THEN Throws
  ELSE Normally([settings EXCEPT !.time_step = time])

SetSafetyIntegrityLevels(flag) ==
  IF flag /\ settings.time_step = 0
  THEN Throws
  ELSE Normally([settings EXCEPT !.sil = flag,
                   !.probability = IF flag THEN TRUE ELSE @])

(* The request is ignored while an analysis that needs it is on. *)
SetProbability(flag) ==
  Normally([settings EXCEPT !.probability =
              IF settings.importance \/ settings.uncertainty \/ settings.sil
              THEN @ ELSE flag])

SetImportance(flag) ==
  Normally([settings EXCEPT !.importance = flag,
              !.probability = IF flag THEN TRUE ELSE @])

SetUncertainty(flag) ==
  Normally([settings EXCEPT !.uncertainty = flag,
              !.probability = IF flag THEN TRUE ELSE @])

SetCcf(flag) == Normally([settings EXCEPT !.ccf = flag])

-----------------------------------------------------------------------------
Init ==
  /\ settings = DefaultSettings
  /\ fault = "none"
  /\ phase = "algorithm"
  /\ project = DefaultSettings
  /\ given = {}

At(here, next) ==
  /\ fault = "none"
  /\ phase = here
  /\ phase' = next

Skip == UNCHANGED <<settings, fault>>

(* The options of a project file in the order its schema fixes; every      *)
(* element and every attribute is optional.                                *)
ProjectOptions ==
  /\ \/ /\ At("algorithm", "prime-implicants")
        /\ Skip \/ \E value \in Algorithms : SetAlgorithm(value)
     \/ /\ At("prime-implicants", "approximation")
        /\ Skip \/ SetPrimeImplicants(TRUE)
     \/ /\ At("approximation", "limits")
        /\ Skip \/ \E value \in {"rare-event", "mcub"} : SetApproximation(value)
     \/ /\ At("limits", "probability")
        /\ Skip \/ \E time \in TimeSteps : SetTimeStep(time)
  /\ UNCHANGED <<project, given>>

ProjectAnalysis ==
  /\ \/ /\ At("probability", "importance")
        /\ Skip \/ \E flag \in BOOLEAN : SetProbability(flag)
        /\ UNCHANGED project
     \/ /\ At("importance", "uncertainty")
        /\ Skip \/ \E flag \in BOOLEAN : SetImportance(flag)
        /\ UNCHANGED project
     \/ /\ At("uncertainty", "ccf")
        /\ Skip \/ \E flag \in BOOLEAN : SetUncertainty(flag)
        /\ UNCHANGED project
     \/ /\ At("ccf", "sil")
        /\ Skip \/ \E flag \in BOOLEAN : SetCcf(flag)
        /\ UNCHANGED project
     \/ /\ At("sil", "cli-algorithm")
        /\ Skip \/ \E flag \in BOOLEAN : SetSafetyIntegrityLevels(flag)
        /\ project' = settings'
  /\ UNCHANGED given

(* A run without --project starts from the default settings. *)
NoProject ==
  /\ At("algorithm", "cli-algorithm")
  /\ Skip
  /\ UNCHANGED <<project, given>>

Note(option, present) == given' = IF present THEN given \cup {option} ELSE given

(* ConstructSettings: a valued option is set only if it is present, a flag *)
(* is set to its presence.                                                 *)
CommandLine ==
  /\ \/ /\ At("cli-algorithm", "cli-prime-implicants")
        /\ \/ Skip /\ Note("algorithm", FALSE)
           \/ \E value \in Algorithms : SetAlgorithm(value) /\ Note("algorithm", TRUE)
     \/ /\ At("cli-prime-implicants", "cli-approximation")
        /\ \E flag \in BOOLEAN : SetPrimeImplicants(flag) /\ Note("prime-implicants", flag)
     \/ /\ At("cli-approximation", "cli-time-step")
        /\ \/ Skip /\ Note("approximation", FALSE)
           \/ \E value \in {"rare-event", "mcub"} :
                SetApproximation(value) /\ Note("approximation", TRUE)
     \/ /\ At("cli-time-step", "cli-sil")
        /\ \/ Skip /\ Note("time-step", FALSE)
           \/ \E time \in TimeSteps : SetTimeStep(time) /\ Note("time-step", TRUE)
     \/ /\ At("cli-sil", "cli-probability")
        /\ \E flag \in BOOLEAN : SetSafetyIntegrityLevels(flag) /\ Note("sil", flag)
     \/ /\ At("cli-probability", "cli-importance")
        /\ \E flag \in BOOLEAN : SetProbability(flag) /\ Note("probability", flag)
     \/ /\ At("cli-importance", "cli-uncertainty")
        /\ \E flag \in BOOLEAN : SetImportance(flag) /\ Note("importance", flag)
     \/ /\ At("cli-uncertainty", "cli-ccf")
        /\ \E flag \in BOOLEAN : SetUncertainty(flag) /\ Note("uncertainty", flag)
     \/ /\ At("cli-ccf", "ready")
        /\ \E flag \in BOOLEAN : SetCcf(flag) /\ Note("ccf", flag)
  /\ UNCHANGED project

Next == ProjectOptions \/ ProjectAnalysis \/ NoProject \/ CommandLine

Spec == Init /\ [][Next]_vars

-----------------------------------------------------------------------------
(* The members of Settings keep to the ranges their setters guard, the     *)
(* time step of settings.cc:148 never negative.                            *)
TypeOK ==
  /\ settings \in SettingsType
  /\ fault \in Faults
  /\ phase \in Phases
  /\ project \in SettingsType
  /\ given \subseteq Options

(* Whatever the order of the setters, prime implicants are asked of BDD    *)
(* without an approximation, the SIL metrics come with a time step, and an *)
(* analysis that needs probabilities turns the probability analysis on:    *)
(* what RiskAnalysis, the calculators and SIL integration rely on.         *)
Consistent ==
  fault # "terminated" =>
    /\ settings.prime_implicants =>
         settings.algorithm = "bdd" /\ settings.approximation = "none"
    /\ settings.sil => settings.time_step # 0
    /\ settings.importance \/ settings.uncertainty \/ settings.sil =>
         settings.probability

(* settings.h:55: choosing an algorithm gives the related settings their   *)
(* appropriate defaults; the setter is noexcept, so it must not throw.     *)
AlgorithmNeverTerminates == fault # "terminated"

(* scram.cc: only what the command line gives overrides the project file.  *)
AbsentOptionsKeepProject ==
  phase = "ready" /\ fault = "none" /\ given = {} => settings = project

-----------------------------------------------------------------------------
(* The settings stay consistent for every set of time steps: every step    *)
(* leaves the object alone or calls one setter, and no setter breaks it.   *)
Setting ==
  \/ \E value \in Algorithms : SetAlgorithm(value)
  \/ \E value \in Approximations : SetApproximation(value)
  \/ \E time \in TimeSteps : SetTimeStep(time)
  \/ \E flag \in BOOLEAN :
       \/ SetPrimeImplicants(flag)
       \/ SetSafetyIntegrityLevels(flag)
       \/ SetProbability(flag)
       \/ SetImportance(flag)
       \/ SetUncertainty(flag)
       \/ SetCcf(flag)

Sound == fault \in Faults /\ settings \in SettingsType /\ Consistent

(* One call of any setter keeps a sound object sound: the step every action *)
(* of the two drivers takes (settings.cc:31-171, settings.h:221-288).        *)
LEMMA SetterKeepsSound ==
  ASSUME Sound, fault = "none", Setting
  PROVE  Sound'
<1> USE TimeStepsAssumption DEF Sound, Consistent, SettingsType, Faults, Normally, Throws,
      Algorithms, Approximations
<1>1. CASE \E value \in Algorithms : SetAlgorithm(value)
  BY <1>1 DEF SetAlgorithm
<1>2. CASE \E value \in Approximations : SetApproximation(value)
  BY <1>2 DEF SetApproximation
<1>3. CASE \E time \in TimeSteps : SetTimeStep(time)
  BY <1>3 DEF SetTimeStep
<1>4. CASE \E flag \in BOOLEAN : SetPrimeImplicants(flag)
  <2>1. PICK flag \in BOOLEAN : SetPrimeImplicants(flag)
    BY <1>4
  <2>2. CASE flag /\ settings.algorithm # "bdd"
    BY <2>1, <2>2 DEF SetPrimeImplicants
  <2>3. CASE flag /\ settings.algorithm = "bdd"
    BY <2>1, <2>3 DEF SetPrimeImplicants
  <2>4. CASE ~flag
    BY <2>1, <2>4 DEF SetPrimeImplicants
  <2> QED
    BY <2>2, <2>3, <2>4
<1>5. CASE \E flag \in BOOLEAN : SetSafetyIntegrityLevels(flag)
  <2>1. PICK flag \in BOOLEAN : SetSafetyIntegrityLevels(flag)
    BY <1>5
  <2>2. CASE flag /\ settings.time_step = 0
    BY <2>1, <2>2 DEF SetSafetyIntegrityLevels
  <2>3. CASE flag /\ settings.time_step # 0
    BY <2>1, <2>3 DEF SetSafetyIntegrityLevels
  <2>4. CASE ~flag
    BY <2>1, <2>4 DEF SetSafetyIntegrityLevels
  <2> QED
    BY <2>2, <2>3, <2>4
<1>6. CASE \E flag \in BOOLEAN : SetProbability(flag)
  BY <1>6 DEF SetProbability
<1>7. CASE \E flag \in BOOLEAN : SetImportance(flag) \/ SetUncertainty(flag) \/ SetCcf(flag)
  BY <1>7 DEF SetImportance, SetUncertainty, SetCcf
<1> QED
  BY <1>1, <1>2, <1>3, <1>4, <1>5, <1>6, <1>7 DEF Setting

(* Every step of the program leaves the object alone or calls one setter.  *)
LEMMA StepIsSetting ==
  ASSUME Next
  PROVE  fault = "none" /\ (UNCHANGED <<settings, fault>> \/ Setting)
<1> USE DEF Setting, Skip, At
<1>1. CASE ProjectOptions
  BY <1>1 DEF ProjectOptions, Approximations
<1>2. CASE ProjectAnalysis
  BY <1>2 DEF ProjectAnalysis
<1>3. CASE NoProject
  BY <1>3 DEF NoProject
<1>4. CASE CommandLine
  BY <1>4 DEF CommandLine, Approximations
<1> QED
  BY <1>1, <1>2, <1>3, <1>4 DEF Next

(* The object a project file and a command line build is consistent, for   *)
(* every set of time steps (settings.h:45-47).                              *)
THEOREM SettingsConsistent == Spec => []Consistent
<1>1. Init => Sound
  BY TimeStepsAssumption DEF Init, Sound, Consistent, SettingsType, DefaultSettings, Faults, Algorithms,
       Approximations
<1>2. Sound /\ [Next]_vars => Sound'
  <2> SUFFICES ASSUME Sound, [Next]_vars
               PROVE  Sound'
    OBVIOUS
  <2>1. CASE UNCHANGED <<settings, fault>>
    BY <2>1 DEF Sound, Consistent
  <2>2. CASE Next
    BY <2>1, <2>2, StepIsSetting, SetterKeepsSound
  <2> QED
    BY <2>1, <2>2 DEF vars
<1>3. Sound => Consistent
  BY DEF Sound
<1> QED
  BY <1>1, <1>2, <1>3, PTL DEF Spec
=============================================================================
