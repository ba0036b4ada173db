-------------------------- MODULE Settings_proofs --------------------------
(***************************************************************************)
(* Proofs about Settings for every value of its constants: any number of   *)
(* requests and restarts, any bodies, any number of retries.               *)
(***************************************************************************)
EXTENDS Settings, TLAPS

-----------------------------------------------------------------------------
(* Operators of ConfigStore *)

LEMMA SeedType == Seed \in Config
BY DEF Seed, Config, Names, Profiles, Ssids, Passes

LEMMA RepairType == ASSUME NEW c \in Config PROVE Repair(c) \in Config
BY DEF Repair, Config, Names, Profiles, Ssids, Passes

(* Whatever was stored, the repaired configuration has a valid profile and
   carries the mark that stops later boots from repairing the subscription. *)
LEMMA RepairMends ==
  ASSUME NEW c \in Config
  PROVE  ValidProfile(Repair(c).profile) /\ Repair(c).set
BY DEF Repair, Config, ValidProfile

(* A marked configuration keeps its subscription. *)
LEMMA RepairKeepsChoice ==
  ASSUME NEW c \in Config, c.set
  PROVE  Repair(c).faults = c.faults
BY DEF Repair, Config

LEMMA BlobType == ASSUME NEW c \in Config PROVE Blob(c) \in Flash
BY DEF Blob, Flash

LEMMA BlobOf == ASSUME NEW f \in Flash, f.blob PROVE f.cfg \in Config
<1>1. f # NoBlob
  BY DEF NoBlob
<1> QED BY <1>1 DEF Flash

LEMMA FactoryNetworkType == ASSUME NEW c \in Config PROVE FactoryNetwork(c) \in Config
BY DEF FactoryNetwork, Config, Ssids, Passes

LEMMA BootedType ==
  ASSUME NEW f \in Flash, NEW readable \in BOOLEAN
  PROVE  Booted(f, readable) \in Config
BY SeedType, RepairType, BlobOf DEF Booted, Loads

-----------------------------------------------------------------------------
(* Types *)

Word == {"none", "on", "off"}

StoreTypeOK ==
  /\ cfg \in Config /\ flash \in Flash
  /\ choice \in Word /\ kept \in Word

(* However a save ends, the flash holds what it held or the new blob. *)
LEMMA SavedIs ==
  ASSUME NEW f, NEW c, NEW result, NEW g \in Saved(f, c, result)
  PROVE  g = f \/ g = Blob(c)
BY DEF Saved

LEMMA SaveType ==
  ASSUME StoreTypeOK, NEW c \in Config, NEW said \in Word, NEW result, Save(c, said, result)
  PROVE  StoreTypeOK'
<1>1. flash' \in Flash
  BY BlobType, SavedIs DEF Save, StoreTypeOK
<1> QED BY <1>1 DEF Save, StoreTypeOK

LEMMA BootType ==
  ASSUME StoreTypeOK, NEW readable \in BOOLEAN, NEW result, Boot(readable, result)
  PROVE  StoreTypeOK'
<1>1. flash' = flash \/ flash' = Blob(Seed)
  BY SavedIs DEF Boot
<1>2. flash' \in Flash
  BY <1>1, BlobType, SeedType DEF StoreTypeOK
<1>3. cfg' \in Config
  BY BootedType DEF Boot, StoreTypeOK
<1> QED BY <1>2, <1>3 DEF Boot, StoreTypeOK, Word

EventNames == {"start", "lost", "ip"}

LEMMA PostType ==
  ASSUME events \in Seq(EventNames), NEW e \in EventNames, Post(e)
  PROVE  events' \in Seq(EventNames)
BY DEF Post

LEMMA HandledType ==
  ASSUME events \in Seq(EventNames), NEW e, Handled(e)
  PROVE  events' \in Seq(EventNames)
BY DEF Handled

LEMMA FirstEvents == <<"start">> \in Seq(EventNames) /\ <<>> \in Seq(EventNames)
BY DEF EventNames

LEMMA NetworkTyped == NetworkTypeOK => events \in Seq(EventNames)
BY DEF NetworkTypeOK, EventNames

(* Everything the driver and the event handler do keeps the network typed. *)
LEMMA DriverType ==
  ASSUME NetworkTypeOK, NEW ok, Joins(ok) \/ Fails(ok) \/ LosesLink
  PROVE  NetworkTypeOK'
<1>1. events' \in Seq(EventNames)
  BY NetworkTyped, PostType DEF Joins, Fails, LosesLink, EventNames
<1> QED BY <1>1 DEF Joins, Fails, LosesLink, NetworkTypeOK, EventNames

LEMMA EventType ==
  ASSUME NetworkTypeOK, EventStep
  PROVE  NetworkTypeOK'
<1>1. events' \in Seq(EventNames)
  BY NetworkTyped, HandledType DEF EventStep, OnStart, OnLost, OnIp
<1>2. Connected \in {"down", "joining", "up"} /\ BitAfterLoss \in BOOLEAN
  BY DEF Connected, BitAfterLoss, NetworkTypeOK
<1>3. link' \in {"down", "joining", "up"} /\ retry' \in 0 .. MaxRetry
  BY <1>2, NetworkAssumption DEF EventStep, OnStart, OnLost, OnIp, GivesUp, NetworkTypeOK
<1>4. bit' \in BOOLEAN /\ netUp' \in BOOLEAN
  BY <1>2 DEF EventStep, OnStart, OnLost, OnIp, NetworkTypeOK
<1>5. radio' = radio
  BY DEF EventStep, OnStart, OnLost, OnIp
<1> QED BY <1>1, <1>3, <1>4, <1>5 DEF NetworkTypeOK, EventNames

LEMMA RadioType ==
  ASSUME NetworkTypeOK, NEW sta \in BOOLEAN,
         StopRadio \/ StartRadio(sta) \/ BootRadio(sta)
  PROVE  NetworkTypeOK'
<1>1. events' \in Seq(EventNames)
  BY NetworkTyped, PostType, FirstEvents DEF StopRadio, StartRadio, BootRadio, EventNames
<1>2. retry' \in 0 .. MaxRetry
  BY NetworkAssumption DEF StopRadio, StartRadio, BootRadio, NetworkTypeOK
<1> QED BY <1>1, <1>2 DEF StopRadio, StartRadio, BootRadio, NetworkTypeOK, EventNames

(* The configuration each handler saves is a configuration. *)
LEMMA WithNetworkType ==
  ASSUME cfg \in Config, NEW b \in NetworkInputs
  PROVE  WithNetwork(b) \in Config
<1>1. b.sta \in BOOLEAN /\ b.ssid \in Ssids \cup {""} /\ b.pass \in Passes \cup {""}
  BY SettingsAssumption
<1> QED BY <1>1 DEF WithNetwork, Config

(* What each handler saves is a configuration, which says what its user has
   said about fault mails. *)
Tells(c, said) == c.set /\ c.faults = (said = "on")

LEMMA HandlerSaves ==
  ASSUME TypeOK, NEW result \in Results, Handler(result)
  PROVE  \E c \in Config, said \in Word :
           /\ Save(c, said, result)
           /\ Tells(c, said) \/ (said = choice /\ c.set = cfg.set /\ c.faults = cfg.faults)
           /\ ValidProfile(cfg.profile) => ValidProfile(c.profile)
<1> DEFINE Saves(c, said) ==
             /\ Save(c, said, result)
             /\ Tells(c, said) \/ (said = choice /\ c.set = cfg.set /\ c.faults = cfg.faults)
             /\ ValidProfile(cfg.profile) => ValidProfile(c.profile)
<1>1. cfg \in Config /\ choice \in Word
  BY DEF TypeOK, Word
<1>2. ASSUME NEW on \in BOOLEAN, PutEvents(on, result)
      PROVE  \E c \in Config, said \in Word : Saves(c, said)
  <2> DEFINE c == [cfg EXCEPT !.faults = on, !.set = TRUE]
             said == IF on THEN "on" ELSE "off"
  <2>1. c \in Config /\ c.set = TRUE /\ c.faults = on /\ c.profile = cfg.profile
    BY <1>1 DEF Config
  <2>2. said \in Word /\ on = (said = "on")
    BY DEF Word
  <2>3. Save(c, said, result)
    BY <1>2 DEF PutEvents
  <2> HIDE DEF c, said
  <2> QED BY <2>1, <2>2, <2>3 DEF Tells
<1>3. CASE PutName(result)
  <2> DEFINE c == [cfg EXCEPT !.name = "mine"]
  <2>1. c \in Config /\ c.set = cfg.set /\ c.faults = cfg.faults /\ c.profile = cfg.profile
    BY <1>1 DEF Config, Names
  <2>2. Save(c, choice, result)
    BY <1>3 DEF PutName
  <2> HIDE DEF c
  <2> QED BY <1>1, <2>1, <2>2
<1>4. ASSUME NEW p \in Profiles,
             Save([cfg EXCEPT !.profile = p], choice, result), ValidProfile(p)
      PROVE  \E c \in Config, said \in Word : Saves(c, said)
  <2> DEFINE c == [cfg EXCEPT !.profile = p]
  <2>1. c \in Config /\ c.set = cfg.set /\ c.faults = cfg.faults /\ c.profile = p
    BY <1>1 DEF Config
  <2>2. Save(c, choice, result) /\ ValidProfile(p)
    BY <1>4
  <2> HIDE DEF c
  <2> QED BY <1>1, <2>1, <2>2
<1>5. CASE LoadProfileFile(result) \/ \E p \in Profiles : PutProfile(p, result)
  <2>1. \E p \in Profiles : Save([cfg EXCEPT !.profile = p], choice, result) /\ ValidProfile(p)
    BY <1>5, Zenon DEF LoadProfileFile, PutProfile
  <2> QED BY <1>4, <2>1, Zenon
<1>6. ASSUME NEW b \in NetworkInputs, PutNetwork(b, result)
      PROVE  \E c \in Config, said \in Word : Saves(c, said)
  <2> DEFINE c == WithNetwork(b)
  <2>1. c \in Config /\ c.set = cfg.set /\ c.faults = cfg.faults /\ c.profile = cfg.profile
    BY <1>1, WithNetworkType DEF WithNetwork, Config
  <2>2. Save(c, choice, result)
    BY <1>6 DEF PutNetwork
  <2> HIDE DEF c
  <2> QED BY <1>1, <2>1, <2>2
<1>7. CASE ResetButton(result)
  <2> DEFINE c == FactoryNetwork(cfg)
  <2>1. c \in Config /\ c.set = cfg.set /\ c.faults = cfg.faults /\ c.profile = cfg.profile
    BY <1>1, FactoryNetworkType DEF FactoryNetwork, Config
  <2>2. Save(c, choice, result)
    BY <1>7 DEF ResetButton
  <2> HIDE DEF c
  <2> QED BY <1>1, <2>1, <2>2
<1> QED BY <1>2, <1>3, <1>5, <1>6, <1>7, Zenon DEF Handler

(* What a handler leaves beside the configuration. *)
LEMMA HandlerRest ==
  ASSUME TypeOK, NEW result \in Results, Handler(result)
  PROVE  /\ NetworkTypeOK'
         /\ slot' = slot /\ applying' \in BOOLEAN /\ reachable' = reachable
<1> USE DEF TypeOK
<1>1. ASSUME NEW on \in BOOLEAN, PutEvents(on, result)
      PROVE  NetworkTypeOK'
  BY <1>1 DEF PutEvents, net, NetworkTypeOK
<1>2. CASE \/ PutName(result) \/ LoadProfileFile(result)
           \/ \E p \in Profiles : PutProfile(p, result)
  BY <1>2 DEF PutName, LoadProfileFile, PutProfile, net, NetworkTypeOK
<1>3. CASE ResetButton(result) \/ \E b \in NetworkInputs : PutNetwork(b, result)
  BY <1>3, RadioType DEF ResetButton, PutNetwork
<1> QED BY <1>1, <1>2, <1>3
        DEF Handler, PutEvents, PutName, PutProfile, LoadProfileFile, PutNetwork, ResetButton

LEMMA TypeInit == Init => TypeOK
<1> SUFFICES ASSUME Init PROVE TypeOK
  OBVIOUS
<1>1. PICK f \in FirstFlash :
        cfg = Booted(f, TRUE) /\ flash = IF f.blob THEN f ELSE Blob(Seed)
  BY DEF Init
<1>2. f \in Flash
  BY SettingsAssumption
<1>3. cfg \in Config /\ flash \in Flash
  BY <1>1, <1>2, BootedType, BlobType, SeedType
<1>4. NetworkTypeOK
  <2>1. events \in Seq(EventNames)
    BY FirstEvents DEF Init
  <2>2. radio \in {"off", "ap", "sta"} /\ link \in {"down", "joining", "up"}
    BY DEF Init
  <2>3. retry = 0 /\ bit \in BOOLEAN /\ netUp \in BOOLEAN
    BY DEF Init
  <2>4. 0 \in 0 .. MaxRetry
    BY NetworkAssumption
  <2> QED BY <2>1, <2>2, <2>3, <2>4 DEF NetworkTypeOK, EventNames
<1> QED BY <1>3, <1>4 DEF Init, TypeOK

LEMMA TypeNext == TypeOK /\ [Next]_vars => TypeOK'
<1> SUFFICES ASSUME TypeOK, [Next]_vars PROVE TypeOK'
  OBVIOUS
<1>0. StoreTypeOK
  BY DEF TypeOK, StoreTypeOK, Word
<1>1. ASSUME NEW result \in Results, Handler(result) PROVE TypeOK'
  <2>1. StoreTypeOK'
    BY <1>0, <1>1, HandlerSaves, SaveType
  <2> QED BY <1>1, <2>1, HandlerRest DEF TypeOK, StoreTypeOK, Word
<1>2. ASSUME NEW p \in Profiles, NEW whole \in BOOLEAN, SaveProfileFile(p, whole)
      PROVE  TypeOK'
  BY <1>2 DEF SaveProfileFile, TypeOK, net, store, NetworkTypeOK
<1>3. CASE FinishApply
  <2>1. NetworkTypeOK'
    BY <1>3, RadioType DEF FinishApply, TypeOK, Config
  <2> QED BY <1>3, <2>1 DEF FinishApply, TypeOK, store
<1>4. ASSUME NEW readable \in BOOLEAN, NEW result \in Results, Boot(readable, result)
      PROVE  TypeOK'
  <2>1. StoreTypeOK'
    BY <1>0, <1>4, BootType
  <2>2. Booted(flash, readable).sta \in BOOLEAN
    BY BootedType DEF TypeOK, Config
  <2>3. NetworkTypeOK'
    BY <1>4, <2>2, RadioType DEF Boot, TypeOK
  <2> QED BY <1>4, <2>1, <2>3 DEF Boot, TypeOK, StoreTypeOK, Word
<1>5. CASE NetworkStep
  <2>1. NetworkTypeOK'
    BY <1>5, DriverType, EventType DEF NetworkStep, TypeOK
  <2> QED BY <1>5, <2>1 DEF NetworkStep, TypeOK, store
<1>6. CASE Reachability
  BY <1>6 DEF Reachability, TypeOK, net, store, NetworkTypeOK
<1>7. CASE UNCHANGED vars
  BY <1>7 DEF vars, net, store, TypeOK, NetworkTypeOK
<1> QED BY <1>1, <1>2, <1>3, <1>4, <1>5, <1>6, <1>7 DEF Next

(* Every variable keeps its type: what is loaded, repaired, merged from a body
   or reset is a whole configuration, and the retries never pass their limit. *)
THEOREM TypeCorrect == Spec => []TypeOK
<1>1. Init => TypeOK BY TypeInit
<1>2. TypeOK /\ [Next]_vars => TypeOK' BY TypeNext
<1> QED BY <1>1, <1>2, PTL DEF Spec

-----------------------------------------------------------------------------
(* What survives a restart *)

(* What the user said is what the configuration in force tells, and what the
   blob in flash tells is what had been said when it was written.  Both carry
   the mark that repair_config looks at. *)
ChoiceInForce == choice # "none" => Tells(cfg, choice)
ChoiceInFlash == kept # "none" => flash.blob /\ Tells(flash.cfg, kept)

StoreInv == ChoiceInForce /\ ChoiceInFlash /\ ProfileInForceValid

LEMMA StoreInit == Init => StoreInv
<1> SUFFICES ASSUME Init PROVE StoreInv
  OBVIOUS
<1>1. PICK f \in FirstFlash : cfg = Booted(f, TRUE)
  BY DEF Init
<1>2. f \in Flash
  BY SettingsAssumption
<1>3. PICK c \in Config : cfg = Repair(c)
  BY <1>1, <1>2, BlobOf, SeedType DEF Booted, Loads
<1>4. ValidProfile(cfg.profile)
  BY <1>3, RepairMends
<1> QED BY <1>4 DEF Init, StoreInv, ChoiceInForce, ChoiceInFlash, ProfileInForceValid

LEMMA HandlerKeeps ==
  ASSUME TypeOK, StoreInv, NEW result \in Results, Handler(result)
  PROVE  StoreInv'
<1>1. PICK c \in Config, said \in Word :
        /\ Save(c, said, result)
        /\ Tells(c, said) \/ (said = choice /\ c.set = cfg.set /\ c.faults = cfg.faults)
        /\ ValidProfile(cfg.profile) => ValidProfile(c.profile)
  BY HandlerSaves
<1>2. said # "none" => Tells(c, said)
  BY <1>1 DEF StoreInv, ChoiceInForce, Tells
<1>3. cfg' = c /\ choice' = said
  BY <1>1 DEF Save
<1>4. ChoiceInFlash'
  <2>1. CASE flash' = Blob(c)
    <3>1. kept' = said /\ flash'.blob /\ flash'.cfg = c
      BY <1>1, <2>1 DEF Save, Blob
    <3> QED BY <1>2, <3>1 DEF ChoiceInFlash
  <2>2. CASE flash' # Blob(c)
    <3>1. flash' = flash /\ kept' = kept
      BY <1>1, <2>2, SavedIs DEF Save
    <3> QED BY <3>1 DEF StoreInv, ChoiceInFlash
  <2> QED BY <2>1, <2>2
<1> QED BY <1>1, <1>2, <1>3, <1>4 DEF StoreInv, ChoiceInForce, ProfileInForceValid

LEMMA BootKeeps ==
  ASSUME TypeOK, StoreInv, NEW readable \in BOOLEAN, NEW result \in Results,
         Boot(readable, result)
  PROVE  StoreInv'
<1>1. CASE Loads(flash, readable)
  <2>1. PICK c \in Config : flash.cfg = c /\ flash.blob /\ cfg' = Repair(c)
    BY <1>1, BlobOf DEF Boot, Booted, Loads, TypeOK
  <2>2. flash' = flash /\ choice' = kept /\ kept' = kept
    BY <1>1 DEF Boot
  <2>3. ChoiceInForce'
    BY <2>1, <2>2, RepairKeepsChoice, RepairMends
       DEF StoreInv, ChoiceInForce, ChoiceInFlash, Tells
  <2>4. ProfileInForceValid'
    BY <2>1, RepairMends DEF ProfileInForceValid
  <2> QED BY <2>2, <2>3, <2>4 DEF StoreInv, ChoiceInFlash
<1>2. CASE ~Loads(flash, readable)
  <2>1. cfg' = Repair(Seed) /\ choice' = "none"
    BY <1>2 DEF Boot, Booted
  <2>2. ProfileInForceValid'
    BY <2>1, RepairMends, SeedType DEF ProfileInForceValid
  <2>3. ChoiceInFlash'
    <3>1. CASE flash' = Blob(Seed)
      BY <1>2, <3>1 DEF Boot, ChoiceInFlash
    <3>2. CASE flash' # Blob(Seed)
      <4>1. flash' = flash /\ kept' = kept
        BY <1>2, <3>2, SavedIs DEF Boot
      <4> QED BY <4>1 DEF StoreInv, ChoiceInFlash
    <3> QED BY <3>1, <3>2
  <2> QED BY <2>1, <2>2, <2>3 DEF StoreInv, ChoiceInForce
<1> QED BY <1>1, <1>2

LEMMA StoreNext == TypeOK /\ StoreInv /\ [Next]_vars => StoreInv'
<1> SUFFICES ASSUME TypeOK, StoreInv, [Next]_vars PROVE StoreInv'
  OBVIOUS
<1>0. UNCHANGED store => StoreInv'
  BY DEF StoreInv, ChoiceInForce, ChoiceInFlash, ProfileInForceValid, store
<1>1. ASSUME NEW result \in Results, Handler(result) PROVE StoreInv'
  BY <1>1, HandlerKeeps
<1>2. ASSUME NEW p \in Profiles, NEW whole \in BOOLEAN, SaveProfileFile(p, whole)
      PROVE  StoreInv'
  BY <1>0, <1>2 DEF SaveProfileFile
<1>3. CASE FinishApply
  BY <1>0, <1>3 DEF FinishApply
<1>4. ASSUME NEW readable \in BOOLEAN, NEW result \in Results, Boot(readable, result)
      PROVE  StoreInv'
  BY <1>4, BootKeeps
<1>5. CASE NetworkStep
  BY <1>0, <1>5 DEF NetworkStep
<1>6. CASE Reachability
  BY <1>0, <1>6 DEF Reachability
<1>7. CASE UNCHANGED vars
  BY <1>0, <1>7 DEF vars
<1> QED BY <1>1, <1>2, <1>3, <1>4, <1>5, <1>6, <1>7 DEF Next

LEMMA StoreInvariant == Spec => []StoreInv
<1>1. Init => TypeOK /\ StoreInv
  BY TypeInit, StoreInit
<1>2. TypeOK /\ StoreInv /\ [Next]_vars => (TypeOK /\ StoreInv)'
  BY TypeNext, StoreNext
<1> QED BY <1>1, <1>2, PTL DEF Spec

(* What the user said about fault mails, or had said when the blob that came
   back was written, is what is in force: through any sequence of requests,
   saves that fail before or after the write, and boots that can or cannot read
   the flash, each with its repair. *)
THEOREM ChoiceIsKept == Spec => []ChoiceSticks
<1>1. StoreInv => ChoiceSticks
  BY DEF StoreInv, ChoiceInForce, Tells, ChoiceSticks
<1> QED BY <1>1, StoreInvariant, PTL

(* No blob, damaged or old, and no profile file brings an invalid profile into
   force. *)
THEOREM ProfileIsValid == Spec => []ProfileInForceValid
<1>1. StoreInv => ProfileInForceValid
  BY DEF StoreInv
<1> QED BY <1>1, StoreInvariant, PTL

-----------------------------------------------------------------------------
(* What is said of the link *)

(* What the latest event not yet handled will say, or, when all are handled,
   what the handler has said: for a client, a link that is up ends with "ip",
   one that is down does not, and is given up when nothing is pending. *)
LinkInv ==
  /\ radio # "sta" => link = "down"
  /\ applying => radio = "off"
  /\ radio = "sta" /\ link = "up" =>
       IF events = <<>> THEN netUp /\ bit ELSE events[Len(events)] = "ip"
  /\ radio = "sta" /\ link = "down" =>
       IF events = <<>> THEN ~netUp /\ ~bit /\ retry >= MaxRetry
       ELSE events[Len(events)] # "ip"

LEMMA LastPosted ==
  ASSUME events \in Seq(EventNames), NEW e \in EventNames, Post(e)
  PROVE  events' # <<>> /\ events'[Len(events')] = e
BY DEF Post

(* The latest event stays the latest until it is the one handled. *)
LEMMA LastHandled ==
  ASSUME events \in Seq(EventNames), NEW e, Handled(e)
  PROVE  /\ events # <<>>
         /\ events' = <<>> => events[Len(events)] = e
         /\ events' # <<>> => events'[Len(events')] = events[Len(events)]
<1>1. Len(events) \in Nat \ {0} /\ Len(events') = Len(events) - 1
  BY DEF Handled
<1>2. CASE Len(events) = 1
  BY <1>1, <1>2 DEF Handled
<1>3. CASE Len(events) > 1
  <2>1. \A i \in 1 .. Len(events) - 1 : events'[i] = events[i + 1]
    BY DEF Handled
  <2>2. events'[Len(events) - 1] = events[Len(events)]
    BY <1>1, <1>3, <2>1
  <2>3. Len(events') # 0
    BY <1>1, <1>3
  <2>4. events' # <<>> /\ events # <<>>
    BY <2>3 DEF Handled
  <2> QED BY <1>1, <2>2, <2>4
<1> QED BY <1>1, <1>2, <1>3

LEMMA LinkInit == Init => LinkInv
<1> SUFFICES ASSUME Init PROVE LinkInv
  OBVIOUS
<1>1. radio = "sta" => events = <<"start">>
  BY DEF Init
<1>2. <<"start">> # <<>> /\ <<"start">>[Len(<<"start">>)] = "start"
  OBVIOUS
<1> QED BY <1>1, <1>2 DEF Init, LinkInv

LEMMA DriverLink ==
  ASSUME NetworkTypeOK, LinkInv, applying' = applying,
         NEW ok, Joins(ok) \/ Fails(ok) \/ LosesLink
  PROVE  LinkInv'
<1>0. radio = "sta" /\ radio' = radio
  BY DEF Joins, Fails, LosesLink, LinkInv
<1>1. CASE Joins(ok)
  BY <1>0, <1>1, NetworkTyped, LastPosted DEF Joins, LinkInv, EventNames
<1>2. CASE Fails(ok)
  BY <1>0, <1>2, NetworkTyped, LastPosted DEF Fails, LinkInv, EventNames
<1>3. CASE LosesLink
  BY <1>0, <1>3, NetworkTyped, LastPosted DEF LosesLink, LinkInv, EventNames
<1> QED BY <1>1, <1>2, <1>3

LEMMA EventLink ==
  ASSUME NetworkTypeOK, LinkInv, applying' = applying, EventStep
  PROVE  LinkInv'
<1> USE NetworkTyped, LastHandled DEF LinkInv
<1>1. CASE OnStart
  BY <1>1 DEF OnStart, Connected
<1>2. CASE OnLost
  <2>1. retry \in Nat /\ MaxRetry \in Nat
    BY NetworkAssumption DEF NetworkTypeOK
  <2>2. CASE GivesUp
    <3>1. link' = link /\ retry' = retry /\ retry >= MaxRetry /\ ~netUp' /\ radio' = radio
      BY <1>2, <2>1, <2>2 DEF OnLost, GivesUp
    <3>2. ~bit'
      BY <1>2, <2>2 DEF OnLost, BitAfterLoss
    <3>3. Handled("lost")
      BY <1>2 DEF OnLost
    <3>4. /\ events # <<>>
          /\ events' = <<>> => events[Len(events)] = "lost"
          /\ events' # <<>> => events'[Len(events')] = events[Len(events)]
      BY <3>3
    <3> QED BY <3>1, <3>2, <3>4
  <2>3. CASE ~GivesUp
    BY <1>2, <2>1, <2>3 DEF OnLost, GivesUp, Connected
  <2> QED BY <2>2, <2>3
<1>3. CASE OnIp
  BY <1>3 DEF OnIp
<1> QED BY <1>1, <1>2, <1>3 DEF EventStep

LEMMA BootLink ==
  ASSUME NetworkTypeOK, NEW sta \in BOOLEAN, BootRadio(sta), applying' = FALSE
  PROVE  LinkInv'
<1>1. <<"start">> # <<>> /\ <<"start">>[Len(<<"start">>)] = "start"
  OBVIOUS
<1> QED BY <1>1 DEF BootRadio, LinkInv

LEMMA FinishLink ==
  ASSUME TypeOK, LinkInv, FinishApply
  PROVE  LinkInv'
<1>1. NetworkTypeOK /\ radio = "off" /\ link = "down" /\ applying' = FALSE
  BY DEF TypeOK, LinkInv, FinishApply
<1>2. CASE cfg.sta
  BY <1>1, <1>2, NetworkTyped, LastPosted DEF FinishApply, StartRadio, LinkInv, EventNames
<1>3. CASE ~cfg.sta
  BY <1>1, <1>3 DEF FinishApply, StartRadio, LinkInv
<1> QED BY <1>2, <1>3

(* A handler either leaves the network alone or has stopped the radio. *)
LEMMA HandlerLink ==
  ASSUME LinkInv, NEW result \in Results, Handler(result)
  PROVE  LinkInv'
<1>1. (UNCHANGED <<net, applying>>) \/ (StopRadio /\ applying' = TRUE)
  BY DEF Handler, PutEvents, PutName, PutProfile, LoadProfileFile, PutNetwork, ResetButton
<1>2. CASE UNCHANGED <<net, applying>>
  BY <1>2 DEF LinkInv, net
<1>3. CASE StopRadio /\ applying' = TRUE
  BY <1>3 DEF LinkInv, StopRadio
<1> QED BY <1>1, <1>2, <1>3

LEMMA LinkNext == TypeOK /\ LinkInv /\ [Next]_vars => LinkInv'
<1> SUFFICES ASSUME TypeOK, LinkInv, [Next]_vars PROVE LinkInv'
  OBVIOUS
<1>0. NetworkTypeOK
  BY DEF TypeOK
<1>1. ASSUME NEW result \in Results, Handler(result) PROVE LinkInv'
  BY <1>1, HandlerLink
<1>2. CASE FinishApply
  BY <1>2, FinishLink
<1>3. ASSUME NEW readable \in BOOLEAN, NEW result \in Results, Boot(readable, result)
      PROVE  LinkInv'
  <2>1. Booted(flash, readable).sta \in BOOLEAN
    BY BootedType DEF TypeOK, Config
  <2> QED BY <1>0, <1>3, <2>1, BootLink DEF Boot
<1>4. CASE NetworkStep
  BY <1>0, <1>4, DriverLink, EventLink DEF NetworkStep
<1>5. CASE \/ \E p \in Profiles, whole \in BOOLEAN : SaveProfileFile(p, whole)
           \/ Reachability \/ UNCHANGED vars
  BY <1>5 DEF SaveProfileFile, Reachability, vars, net, LinkInv
<1> QED BY <1>1, <1>2, <1>3, <1>4, <1>5 DEF Next

LEMMA LinkInvariant == Spec => [](TypeOK /\ LinkInv)
<1>1. Init => TypeOK /\ LinkInv
  BY TypeInit, LinkInit
<1>2. TypeOK /\ LinkInv /\ [Next]_vars => (TypeOK /\ LinkInv)'
  BY TypeNext, LinkNext
<1> QED BY <1>1, <1>2, PTL DEF Spec

(* With all events handled, flag and bit agree with the link, also when events
   of the radio's former life were handled after it was set up anew. *)
THEOREM LinkIsReported == Spec => []LinkReported
<1>1. TypeOK /\ LinkInv => LinkReported
  BY DEF TypeOK, NetworkTypeOK, LinkInv, LinkReported
<1> QED BY <1>1, LinkInvariant, PTL

(* A client at rest without a link has used up its retries. *)
THEOREM GivesUpLast == Spec => []GivesUpOnlyAtTheEnd
<1>1. TypeOK /\ LinkInv => GivesUpOnlyAtTheEnd
  BY DEF LinkInv, GivesUpOnlyAtTheEnd
<1> QED BY <1>1, LinkInvariant, PTL
-----------------------------------------------------------------------------
(* What ComesBack descends on.  That the event task and the driver take their *)
(* steps is fairness, and stays with TLC.                                     *)

(* Steps of the station to a connection. *)
Apart == IF link = "up" THEN 0 ELSE IF link = "joining" THEN 1 ELSE 2

(* A client that is not connected and has reconnections left has something to
   do: an event to handle, or a join with room for its outcome. *)
ClientAlive ==
  radio = "sta" /\ link # "up" /\ retry < MaxRetry
    => events # <<>> \/ (link = "joining" /\ Room)

(* A step of the driver or the event task of a client whose network is there
   and keeps the link: the station comes closer to a connection, or is no
   farther with one event less to handle, or has given up. *)
ClientStep ==
  radio = "sta" /\ Accepts /\ NetworkStep /\ ~LosesLink
    => \/ retry' >= MaxRetry
       \/ Apart' < Apart
       \/ Apart' = Apart /\ Len(events') < Len(events)

LEMMA HandledShortens ==
  ASSUME NetworkTypeOK, NEW e, Handled(e)
  PROVE  Len(events') < Len(events)
<1>1. events \in Seq(EventNames) /\ events # <<>> /\ events' = Tail(events)
  BY NetworkTyped DEF Handled
<1> HIDE DEF EventNames
<1> QED BY <1>1

(* Nothing keeps a client from its network but a lost link and its own
   counter: it always has a step to take, and no step leads back. *)
THEOREM ClientComesCloser == Spec => []ClientAlive /\ [][ClientStep]_vars
<1>1. TypeOK /\ GivesUpOnlyAtTheEnd => ClientAlive
  <2> SUFFICES ASSUME TypeOK, GivesUpOnlyAtTheEnd, radio = "sta", link # "up",
                      retry < MaxRetry, events = <<>>
               PROVE  link = "joining" /\ Room
    BY DEF ClientAlive
  <2>1. link \in {"down", "joining", "up"} /\ retry \in Nat
    BY NetworkAssumption DEF TypeOK, NetworkTypeOK
  <2>2. link = "joining"
    BY <2>1, NetworkAssumption DEF GivesUpOnlyAtTheEnd
  <2>3. Room
    <3>1. Len(events) = 0
      OBVIOUS
    <3> QED BY <3>1, NetworkAssumption DEF Room
  <2> QED BY <2>2, <2>3
<1>2. TypeOK => ClientStep
  <2> SUFFICES ASSUME TypeOK, radio = "sta", Accepts, NetworkStep, ~LosesLink
               PROVE  \/ retry' >= MaxRetry
                      \/ Apart' < Apart
                      \/ Apart' = Apart /\ Len(events') < Len(events)
    BY DEF ClientStep
  <2>1. NetworkTypeOK /\ link \in {"down", "joining", "up"} /\ retry \in 0 .. MaxRetry
    BY DEF TypeOK, NetworkTypeOK
  <2>2. CASE Joins(Accepts)
    BY <2>2 DEF Joins, Apart
  <2>3. CASE Fails(Accepts)
    BY <2>3 DEF Fails
  <2>4. CASE OnStart
    <3>1. Len(events') < Len(events)
      BY <2>1, <2>4, HandledShortens DEF OnStart
    <3>2. link' = Connected
      BY <2>4 DEF OnStart
    <3> QED BY <2>1, <3>1, <3>2 DEF Connected, Apart
  <2>5. CASE OnLost
    <3>1. Len(events') < Len(events)
      BY <2>1, <2>5, HandledShortens DEF OnLost
    <3>2. CASE GivesUp
      <4>1. retry' = retry
        BY <2>5, <3>2 DEF OnLost
      <4> QED BY <2>1, <3>2, <4>1, NetworkAssumption DEF GivesUp
    <3>3. CASE ~GivesUp
      <4>1. link' = Connected
        BY <2>5, <3>3 DEF OnLost
      <4> QED BY <2>1, <3>1, <4>1 DEF Connected, Apart
    <3> QED BY <3>2, <3>3
  <2>6. CASE OnIp
    <3>1. Len(events') < Len(events)
      BY <2>1, <2>6, HandledShortens DEF OnIp
    <3>2. link' = link
      BY <2>6 DEF OnIp
    <3> QED BY <3>1, <3>2 DEF Apart
  <2> QED BY <2>2, <2>3, <2>4, <2>5, <2>6 DEF NetworkStep, EventStep
<1>3. Spec => []TypeOK /\ []GivesUpOnlyAtTheEnd
  BY TypeCorrect, GivesUpLast
<1>4. Spec => []ClientAlive
  BY <1>1, <1>3, PTL
<1>5. Spec => [][ClientStep]_vars
  BY <1>2, <1>3, PTL DEF Spec
<1> QED BY <1>4, <1>5
=============================================================================
