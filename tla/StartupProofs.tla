---------------------------- MODULE StartupProofs ----------------------------
(***************************************************************************)
(* Theorems about Startup, for any set of files an operator may write and  *)
(* any settings in the environment.                                        *)
(***************************************************************************)
EXTENDS Startup, TLAPS

USE StartupAssumption

\* A process past the check has a configuration that passed it.
Checked == pc \in Steps \ {"secrets", "validate"} => Validates(Loaded(config))

StartupInv ==
    /\ TypeOK
    /\ pc # "down" => config # None
    /\ Checked
    /\ NothingMissing

LEMMA LoadedType ==
  ASSUME NEW c \in Config
  PROVE  Loaded(c) \in Config /\ Loaded(c).ca = c.ca
  <1>1. c.given \cup Env \in SUBSET Settings
    BY DEF Config, Settings
  <1> QED
    BY <1>1 DEF Loaded, Config

LEMMA RenderedType ==
  ASSUME NEW f \in Flags
  PROVE  Rendered(FromFlags(f)) \in Config
  <1> DEFINE c == FromFlags(f)
  <1>1. c \in Config
    <2>1. f.given \cup {"public_url", "listen", "path"} \in SUBSET Settings
      BY DEF Flags, Settings
    <2> QED
      BY <2>1 DEF FromFlags, Flags, Config
  <1>2. (c.given \cap ({"public_url"} \cup TLSNeeds(c) \cup CANeeds(c)))
           \cup {"listen", "path"} \in SUBSET Settings
    BY <1>1 DEF Config, Settings
  <1> HIDE DEF c
  <1> QED
    BY <1>1, <1>2 DEF Rendered, Config, c

\* What the check asks for is all that the packages use, whatever the modes.
LEMMA Complete ==
  ASSUME NEW c \in Config, Validates(c), NEW step \in Steps, ~Refuses(step, c)
  PROVE  Uses(step, c) \subseteq c.given
  <1>1. step = "open" => c.driver = "sqlite"
    BY DEF Refuses
  <1>2. c.driver = "sqlite" => "path" \in c.given
    BY DEF Validates, Required, StorageNeeds
  <1>3. step \in {"secrets", "validate", "open", "pki", "auth", "oidc", "listen"}
    BY DEF Steps
  <1>4. CASE step = "pki"
    <2>1. {"public_url"} \cup SigningNeeds(c) \cup CANeeds(c) \subseteq c.given
      BY DEF Validates, Required
    <2>2. c.ca \in {"generate", "import", "external"}
      BY DEF Config
    <2> QED
      BY <1>4, <2>1, <2>2 DEF Uses, CANeeds
  <1>5. CASE step = "auth"
    BY <1>5 DEF Uses, Validates, Required
  <1>6. CASE step = "oidc"
    BY <1>6 DEF Uses, Validates, Required
  <1>7. CASE step = "listen"
    BY <1>7 DEF Uses, Validates, Required, TLSNeeds
  <1>8. CASE step = "open"
    BY <1>1, <1>2, <1>8 DEF Uses
  <1>9. CASE step \in {"secrets", "validate"}
    BY <1>9 DEF Uses
  <1> QED
    BY <1>3, <1>4, <1>5, <1>6, <1>7, <1>8, <1>9

LEMMA StartupInit == Init => StartupInv
  <1> SUFFICES ASSUME Init PROVE StartupInv
    OBVIOUS
  <1>1. TypeOK
    BY DEF Init, TypeOK
  <1> QED
    BY <1>1 DEF Init, StartupInv, Checked, NothingMissing, Steps

LEMMA StartupNext ==
  ASSUME StartupInv, [Next]_vars
  PROVE  StartupInv'
  <1> USE DEF StartupInv
  <1>0. pc # "down" => config \in Config /\ Loaded(config) \in Config
    BY LoadedType DEF TypeOK
  <1>1. CASE UNCHANGED vars
    BY <1>1 DEF vars, TypeOK, Checked, NothingMissing, Loaded
  <1>2. ASSUME NEW f \in Flags, RunInit(f)
        PROVE  StartupInv'
    <2>1. config' \in Config /\ pc = "down" /\ pc' = "down"
      BY <1>2, RenderedType DEF RunInit
    <2> QED
      BY <1>2, <2>1 DEF RunInit, TypeOK, Checked, NothingMissing, Steps
  <1>3. CASE Start
    BY <1>3 DEF Start, TypeOK, Checked, NothingMissing, Steps
  <1>4. CASE StepStops
    <2>1. \E why \in {"refused", "missing", "provider", "outside"} :
             /\ Ends(why)
             /\ why = "missing" => /\ pc \in Steps
                                   /\ ~(Uses(pc, Loaded(config)) \subseteq Loaded(config).given)
                                   /\ ~Refuses(pc, Loaded(config))
      BY <1>4 DEF StepStops
    <2>2. pc \in {"secrets", "validate"} => Uses(pc, Loaded(config)) = {}
      BY DEF Uses
    <2>3. pc \in Steps /\ pc # "down"
      BY <1>4 DEF StepStops, Steps
    <2>4. PICK why \in {"refused", "provider", "outside"} : Ends(why)
      BY <1>0, <2>1, <2>2, <2>3, Complete DEF Checked
    <2> QED
      BY <2>3, <2>4 DEF Ends, TypeOK, Checked, NothingMissing, Steps
  <1>5. CASE StepDone
    <2>1. pc \in Steps /\ pc # "down" /\ pc' = After[pc] /\ config' = config
      BY <1>5 DEF StepDone, Steps
    <2>2. /\ pc' \in Steps \cup {"serving"} /\ pc' # "down"
          /\ pc' \in Steps \ {"secrets", "validate"} =>
                pc = "validate" \/ pc \in Steps \ {"secrets", "validate"}
      BY <2>1 DEF After, Steps
    <2>3. Checked'
      <3>1. pc = "validate" => Validates(Loaded(config))
        BY <1>5 DEF StepDone, Refuses
      <3> QED
        BY <2>1, <2>2, <3>1 DEF Checked, Loaded
    <2> QED
      BY <1>5, <2>1, <2>2, <2>3 DEF StepDone, TypeOK, NothingMissing
  <1>6. CASE Stop
    BY <1>6 DEF Stop, Ends, TypeOK, Checked, NothingMissing, Steps
  <1>7. ASSUME NEW what \in Outside, Outage(what)
        PROVE  StartupInv'
    BY <1>7 DEF Outage, TypeOK, Checked, NothingMissing, Loaded
  <1>8. CASE Repair
    BY <1>8 DEF Repair, TypeOK, Checked, NothingMissing, Loaded
  <1> QED
    BY <1>1, <1>2, <1>3, <1>4, <1>5, <1>6, <1>7, <1>8 DEF Next, Serve

THEOREM StartupInvariant == Spec => []StartupInv
  <1>1. StartupInv /\ [Next]_vars => StartupInv'
    BY StartupNext
  <1> QED
    BY <1>1, StartupInit, PTL DEF Spec

\* The states of the configuration, and of the process keep their types.
THEOREM TypeCorrect == Spec => []TypeOK
  <1>1. StartupInv => TypeOK
    BY DEF StartupInv
  <1> QED
    BY <1>1, StartupInvariant, PTL

\* Whatever file passes Validate, with whatever environment, no package comes
\* upon an empty setting it needs (config.go, serve.go).
THEOREM ValidateIsComplete == Spec => []NothingMissing
  <1>1. StartupInv => NothingMissing
    BY DEF StartupInv
  <1> QED
    BY <1>1, StartupInvariant, PTL
=============================================================================
