------------------------ MODULE WirelessConfigProofs ------------------------
(***************************************************************************)
(* Proofs about WirelessConfig for every set of programs, profiles and     *)
(* lengths: types, that the configuration can be loaded whenever no        *)
(* program is at work, and that operations which neither overlap nor are   *)
(* cut off do exactly what they say.                                       *)
(*                                                                         *)
(* QuietJsonLoads is not inductive.  TornHasRepairer adds who will write a *)
(* torn file: a program between its truncation and its write, or the boot, *)
(* as long as its constructor has not loaded the file or is about to       *)
(* revert it.  That a write repairs the file needs LoadedInv: a setter     *)
(* that goes on has loaded a configuration.                                *)
(*                                                                         *)
(* SerialExact speaks of a system at rest.  SerialInv says of every state  *)
(* in between what is left of the operation (Remaining and the other       *)
(* steps) and what the files and the networks must be for that rest to be  *)
(* right: Ready. A file that is truncated counts as what its program has   *)
(* loaded.  Among the profiles, Gathered says that those before the next   *)
(* one are in the file if setJson knows them (Keeps) and that their        *)
(* networks are ranked above the ones to come (Ranked).  That an operation *)
(* starts without networks left over from another is Paired.               *)
(***************************************************************************)
EXTENDS WirelessConfig, SequenceTheorems, TLAPS

(* What a program has loaded while it saves.                                *)
LoadedInv ==
  \A p \in Programs :
    /\ phase[p] # "load" => Busy(p)
    /\ phase[p] = "save" => Now(p).do \in {"will", "add", "interfaces"}
    /\ phase[p] = "write" => Now(p).do \notin {"ctor", "apply"}
    /\ phase[p] # "load" /\ Now(p).do \in {"will", "add"} =>
         root[p] \in Configs /\ Now(p).arg \notin Unknown
    /\ phase[p] # "load" /\ Now(p).do = "interfaces" =>
         root[p] \in InterfacesTexts \union {Torn}

WritesJson(p) == phase[p] = "write" /\ Now(p).do \in {"revert", "will", "add"}

TornHasRepairer ==
  file["json"] = Torn => \/ \E p \in Programs : WritesJson(p)
                         \/ Doing(Boot, {"ctor", "revert"}, "load")

Inv == TypeOK /\ LoadedInv /\ TornHasRepairer

-----------------------------------------------------------------------------
(* The steps of the operations are steps.                                   *)
LEMMA StepTypes ==
  /\ <<Ctor>> \in Seq(AllSteps)
  /\ <<Revert>> \in Seq(AllSteps)
  /\ ApplySteps \in Seq(AllSteps)
  /\ ResetSteps \in Seq(AllSteps)
  /\ \A b \in BOOLEAN : /\ <<Step("will", b, 0)>> \in Seq(AllSteps)
                        /\ <<Step("interfaces", b, 0)>> \in Seq(AllSteps)
  /\ \A s \in Ssids : <<Step("join", s, 0)>> \o ApplySteps \in Seq(AllSteps)
<1>1. Ctor \in AllSteps /\ Revert \in AllSteps
  BY DEF Ctor, Revert, Step, AllSteps
<1>2. \A d \in {"apply", "wpa", "copyWpa", "copyInterfaces"} : Step(d, 0, 0) \in AllSteps
  BY DEF Step, AllSteps
<1>3. \A b \in BOOLEAN : Step("will", b, 0) \in AllSteps /\ Step("interfaces", b, 0) \in AllSteps
  BY DEF Step, AllSteps
<1>4. \A s \in Ssids : Step("join", s, 0) \in AllSteps
  BY DEF Step, AllSteps
<1>5. ApplySteps \in Seq(AllSteps) /\ ResetSteps \in Seq(AllSteps)
  BY <1>1, <1>2 DEF ApplySteps, ResetSteps
<1> QED
  BY <1>1, <1>3, <1>4, <1>5

LEMMA SetTypes ==
  ASSUME NEW c \in [will : BOOLEAN, profiles : Seq(Ssids \union Unknown)]
  PROVE  SetSteps(c) \in Seq(AllSteps)
<1> DEFINE n == Len(c.profiles)
           adds == [i \in 1 .. n |-> Step("add", c.profiles[i], n + 1 - i)]
<1>1. n \in Nat
  OBVIOUS
<1>2. \A i \in 1 .. n : Step("add", c.profiles[i], n + 1 - i) \in AllSteps
  <2> TAKE i \in 1 .. n
  <2>1. c.profiles[i] \in Ssids \union Unknown
    OBVIOUS
  <2>2. n + 1 - i \in Nat \ {0}
    BY <1>1
  <2> QED
    BY <2>1, <2>2 DEF Step, AllSteps
<1>3. adds \in Seq(AllSteps)
  BY <1>1, <1>2, IsASeq
<1>4. <<Revert, Step("will", c.will, 0)>> \in Seq(AllSteps)
  BY DEF Revert, Step, AllSteps
<1>5. <<Step("wpa", 0, 0)>> \in Seq(AllSteps)
  BY DEF Step, AllSteps
<1> HIDE DEF adds, n
<1>6. <<Revert, Step("will", c.will, 0)>> \o adds \o <<Step("wpa", 0, 0)>> \in Seq(AllSteps)
  BY <1>3, <1>4, <1>5
<1> QED
  BY <1>6 DEF SetSteps, adds, n

(* A program that goes on: the other programs' steps stay.                  *)
LEMMA RestType ==
  ASSUME TypeOK, NEW p \in Programs, Busy(p), NEW steps \in Seq(AllSteps)
  PROVE  /\ Rest(p, steps) \in [Programs -> Seq(AllSteps)]
         /\ \A q \in Programs : q # p => Rest(p, steps)[q] = todo[q]
         /\ Rest(p, steps)[p] = steps \o Tail(todo[p])
<1>1. todo \in [Programs -> Seq(AllSteps)] /\ todo[p] # <<>>
  BY DEF TypeOK, Busy
<1>2. Tail(todo[p]) \in Seq(AllSteps)
  BY <1>1
<1>3. steps \o Tail(todo[p]) \in Seq(AllSteps)
  BY <1>2
<1> QED
  BY <1>1, <1>3 DEF Rest

LEMMA NowType == ASSUME TypeOK, NEW p \in Programs, Busy(p) PROVE Now(p) \in AllSteps
  BY DEF TypeOK, Busy, Now

(* The default configuration and what a load may yield are configurations.  *)
LEMMA Defaults ==
  ASSUME TypeOK
  PROVE  Default \in Configs /\ Loaded \in Configs /\ DefaultNets \in WpaTexts
<1>1. Default \in Configs
  BY DEF Default, Configs
<1>2. DefaultNets \in WpaTexts
  BY DEF DefaultNets, WpaTexts
<1> QED
  BY <1>1, <1>2 DEF TypeOK, Loaded

(* What the ghost expects has its type.                                     *)
LEMMA PromiseType ==
  ASSUME TypeOK, serial' \in BOOLEAN,
         NEW c \in [will : BOOLEAN, profiles : Seq(Ssids \union Unknown)],
         NEW i \in InterfacesTexts \union {Torn},
         Promise(c, i) \/ Expect(c)
  PROVE  goal' \in [json : [will : BOOLEAN, profiles : Seq(Ssids \union Unknown)],
                    interfaces : InterfacesTexts \union {Torn}]
<1>1. [auto |-> c.will] \in InterfacesTexts
  BY DEF InterfacesTexts
<1>2. NoGoal \in [json : [will : BOOLEAN, profiles : Seq(Ssids \union Unknown)],
                  interfaces : InterfacesTexts \union {Torn}]
  <2>1. Default \in [will : BOOLEAN, profiles : Seq(Ssids \union Unknown)]
    BY DEF Default
  <2>2. [auto |-> Default.will] \in InterfacesTexts
    BY DEF Default, InterfacesTexts
  <2> QED
    BY <2>1, <2>2 DEF NoGoal
<1>3. PICK j \in InterfacesTexts \union {Torn} : Promise(c, j)
  BY <1>1 DEF Expect
<1> QED
  BY <1>2, <1>3 DEF Promise

LEMMA ConfigsRequested ==
  Configs \subseteq [will : BOOLEAN, profiles : Seq(Ssids \union Unknown)]
<1> SUFFICES ASSUME NEW c \in Configs
             PROVE  c \in [will : BOOLEAN, profiles : Seq(Ssids \union Unknown)]
  OBVIOUS
<1>1. c.profiles \in Seq(Ssids \union Unknown)
  <2>1. c.profiles \in Seq(Ssids)
    BY DEF Configs
  <2> QED
    BY <2>1, SeqMonotonic, Ssids \subseteq Ssids \union Unknown
<1> QED
  BY <1>1 DEF Configs

-----------------------------------------------------------------------------
LEMMA InitInv == Init => Inv
<1> SUFFICES ASSUME Init PROVE Inv
  OBVIOUS
<1>1. TypeOK
  <2>1. Default \in Configs /\ DefaultNets \in WpaTexts /\ Default.will \in BOOLEAN
    BY DEF Default, Configs, DefaultNets, WpaTexts
  <2>2. [auto |-> Default.will] \in InterfacesTexts
    BY <2>1 DEF InterfacesTexts
  <2>3. Default \in [will : BOOLEAN, profiles : Seq(Ssids \union Unknown)]
    BY <2>1, ConfigsRequested
  <2>4. /\ file \in [Files -> Configs \union WpaTexts \union InterfacesTexts \union {Torn}]
        /\ file["json"] = Default /\ file["wpa"] = DefaultNets
        /\ file["interfaces"] = [auto |-> Default.will]
    BY <2>1, <2>2 DEF Init, Files
  <2>5. /\ todo \in [Programs -> Seq(AllSteps)]
        /\ networks \in [Programs -> Seq(Entries)]
    BY DEF Init
  <2>6. goal \in [json : [will : BOOLEAN, profiles : Seq(Ssids \union Unknown)],
                  interfaces : InterfacesTexts \union {Torn}]
    BY <2>2, <2>3 DEF Init, NoGoal
  <2> QED
    BY <2>1, <2>2, <2>4, <2>5, <2>6 DEF Init, TypeOK
<1>2. LoadedInv
  BY DEF Init, LoadedInv, Busy
<1>3. TornHasRepairer
  <2>1. file["json"] = Default /\ Default \in Configs
    BY DEF Init, Files, Default, Configs
  <2> QED
    BY <2>1, TornAssumption DEF TornHasRepairer, Configs
<1> QED
  BY <1>1, <1>2, <1>3 DEF Inv

(* An operation begins: only the user's program has something new to do.    *)
LEMMA BeginsInv ==
  ASSUME Inv, NEW p \in Users, NEW steps \in Seq(AllSteps), Begins(p, steps),
         serial' \in BOOLEAN,
         goal' \in [json : [will : BOOLEAN, profiles : Seq(Ssids \union Unknown)],
                    interfaces : InterfacesTexts \union {Torn}]
  PROVE  Inv'
<1>1. p \in Programs /\ p # Boot
  BY ProgramsAssumption DEF Programs
<1>2. TypeOK'
  BY <1>1 DEF Inv, TypeOK, Begins
<1>3. phase[p] = "load"
  BY <1>1 DEF Inv, TypeOK, LoadedInv, Begins
<1>4. todo'[p] = steps /\ \A q \in Programs : q # p => todo'[q] = todo[q]
  BY <1>1 DEF Inv, TypeOK, Begins
<1>5. phase' = phase /\ root' = root /\ file' = file
  BY DEF Begins
<1>6. LoadedInv'
  BY <1>3, <1>4, <1>5 DEF Inv, LoadedInv, Busy, Now
<1>7. TornHasRepairer'
  <2> SUFFICES ASSUME file["json"] = Torn PROVE TornHasRepairer'
    BY <1>5 DEF TornHasRepairer
  <2>1. \A q \in Programs : WritesJson(q) => WritesJson(q)'
    BY <1>3, <1>4, <1>5 DEF WritesJson, Now
  <2>2. Boot \in Programs
    BY DEF Programs
  <2>3. Doing(Boot, {"ctor", "revert"}, "load") => Doing(Boot, {"ctor", "revert"}, "load")'
    BY <1>1, <1>4, <1>5, <2>2 DEF Doing, Busy, Now
  <2> QED
    BY <2>1, <2>3, <1>5 DEF Inv, TornHasRepairer
<1> QED
  BY <1>2, <1>6, <1>7 DEF Inv

(* All operations of a user begin in that way.                              *)
LEMMA UserInv ==
  ASSUME Inv, NEW p \in Users,
         \/ Get(p) \/ SetJson(p) \/ Apply(p) \/ JoinNetwork(p)
         \/ SetWillStartOnBootup(p) \/ RevertToDefault(p)
  PROVE  Inv'
<1> USE DEF Inv
<1> DEFINE Requested == [will : BOOLEAN, profiles : Seq(Ssids \union Unknown)]
<1>0. /\ serial \in BOOLEAN /\ Quiet \in BOOLEAN
      /\ goal.json \in Requested /\ goal.interfaces \in InterfacesTexts \union {Torn}
      /\ Loaded \in Requested /\ Default \in Requested
      /\ [auto |-> Default.will] \in InterfacesTexts
  BY Defaults, ConfigsRequested DEF TypeOK, Quiet, Default, InterfacesTexts
<1>1. CASE Get(p)
  <2>1. serial' \in BOOLEAN
    BY <1>1, <1>0 DEF Get
  <2>2. Begins(p, <<Ctor>>) /\ Promise(goal.json, goal.interfaces)
    BY <1>1 DEF Get
  <2> QED
    BY <2>1, <2>2, <1>0, PromiseType, BeginsInv, StepTypes
<1>2. CASE SetJson(p)
  <2>1. PICK c \in Requests : /\ Begins(p, <<Ctor>> \o SetSteps(c))
                              /\ serial' = Quiet /\ Expect(c)
    BY <1>2 DEF SetJson
  <2>2. c \in Requested
    <3>1. c.profiles \in Lists(Ssids \union Unknown) /\ c.will \in BOOLEAN
          /\ c = [will |-> c.will, profiles |-> c.profiles]
      BY DEF Requests
    <3>2. PICK n \in 0 .. MaxList : c.profiles \in [1 .. n -> Ssids \union Unknown]
      BY <3>1 DEF Lists
    <3>3. c.profiles \in Seq(Ssids \union Unknown)
      BY <3>2, BoundsAssumption
    <3> QED
      BY <3>1, <3>3
  <2>3. <<Ctor>> \o SetSteps(c) \in Seq(AllSteps)
    BY <2>2, SetTypes, StepTypes
  <2>4. serial' \in BOOLEAN
    BY <2>1, <1>0
  <2>5. goal' \in [json : Requested, interfaces : InterfacesTexts \union {Torn}]
    BY <2>1, <2>2, <2>4, PromiseType
  <2> QED
    BY <2>1, <2>3, <2>4, <2>5, BeginsInv
<1>3. CASE Apply(p)
  <2>1. Begins(p, ApplySteps) /\ serial' = Quiet /\ Expect(Loaded)
    BY <1>3 DEF Apply
  <2> QED
    BY <2>1, <1>0, PromiseType, BeginsInv, StepTypes
<1>4. CASE JoinNetwork(p)
  <2>1. PICK s \in Ssids : Begins(p, <<Step("join", s, 0)>> \o ApplySteps)
                           /\ serial' = Quiet /\ Expect(Loaded)
    BY <1>4 DEF JoinNetwork
  <2>2. <<Step("join", s, 0)>> \o ApplySteps \in Seq(AllSteps)
    BY StepTypes
  <2> QED
    BY <2>1, <2>2, <1>0, PromiseType, BeginsInv
<1>5. CASE SetWillStartOnBootup(p)
  <2>1. PICK b \in BOOLEAN : /\ Begins(p, <<Step("will", b, 0)>>)
                             /\ serial' = (serial /\ Quiet)
                             /\ Expect([Loaded EXCEPT !.will = b])
    BY <1>5 DEF SetWillStartOnBootup
  <2>2. [Loaded EXCEPT !.will = b] \in Requested
    BY <1>0
  <2>3. <<Step("will", b, 0)>> \in Seq(AllSteps)
    BY StepTypes
  <2>4. serial' \in BOOLEAN
    BY <2>1, <1>0
  <2> QED
    BY <2>1, <2>2, <2>3, <2>4, PromiseType, BeginsInv
<1>6. CASE RevertToDefault(p)
  <2>1. /\ Begins(p, ResetSteps) /\ serial' = Quiet
        /\ Promise(Default, [auto |-> Default.will])
    BY <1>6 DEF RevertToDefault
  <2> QED
    BY <2>1, <1>0, PromiseType, BeginsInv, StepTypes
<1> QED
  BY <1>1, <1>2, <1>3, <1>4, <1>5, <1>6

-----------------------------------------------------------------------------
(* A program at a step that loads goes on to its next step.                 *)
LEMMA LoadedGoesOn ==
  ASSUME Inv, NEW p \in Programs, Busy(p), phase[p] = "load",
         NEW steps \in Seq(AllSteps), todo' = Rest(p, steps),
         UNCHANGED <<file, phase, networks, ops, crashes, ghosts>>,
         root' \in [Programs -> Configs \union InterfacesTexts \union {Torn}],
         \A q \in Programs : q # p => root'[q] = root[q],
         p = Boot /\ Now(p).do \in {"ctor", "revert"} /\ file["json"] = Torn =>
           steps = <<Revert>>
  PROVE  Inv'
<1> USE DEF Inv
<1>1. /\ todo' \in [Programs -> Seq(AllSteps)]
      /\ \A q \in Programs : q # p => todo'[q] = todo[q]
      /\ todo'[p] = steps \o Tail(todo[p])
  BY RestType
<1>2. TypeOK'
  BY <1>1 DEF TypeOK, ghosts
<1>3. LoadedInv'
  BY <1>1 DEF LoadedInv, Busy, Now
<1>4. TornHasRepairer'
  <2> SUFFICES ASSUME file["json"] = Torn PROVE TornHasRepairer'
    BY DEF TornHasRepairer
  <2>1. \A q \in Programs : WritesJson(q) => WritesJson(q)'
    BY <1>1 DEF WritesJson, Now
  <2>2. Boot \in Programs
    BY DEF Programs
  <2>3. CASE Doing(Boot, {"ctor", "revert"}, "load") /\ p # Boot
    <3>1. Doing(Boot, {"ctor", "revert"}, "load")'
      BY <1>1, <2>2, <2>3 DEF Doing, Busy, Now
    <3> QED
      BY <3>1 DEF TornHasRepairer
  <2>4. CASE Doing(Boot, {"ctor", "revert"}, "load") /\ p = Boot
    <3>1. todo'[Boot] = <<Revert>> \o Tail(todo[Boot])
      BY <1>1, <2>4 DEF Doing
    <3>2. Tail(todo[Boot]) \in Seq(AllSteps)
      BY <2>2, <2>4 DEF TypeOK, Doing, Busy
    <3>3. todo'[Boot] # <<>> /\ Head(todo'[Boot]) = Revert
      BY <3>1, <3>2
    <3>4. Doing(Boot, {"ctor", "revert"}, "load")'
      BY <3>3, <2>4 DEF Doing, Busy, Now, Revert, Step
    <3> QED
      BY <3>4 DEF TornHasRepairer
  <2> QED
    BY <2>1, <2>3, <2>4 DEF TornHasRepairer
<1> QED
  BY <1>2, <1>3, <1>4

LEMMA CtorLoadsInv == ASSUME Inv, NEW p \in Programs, CtorLoads(p) PROVE Inv'
<1> DEFINE steps == IF file["json"] = Torn THEN <<Revert>> ELSE <<>>
<1>1. steps \in Seq(AllSteps)
  BY StepTypes
<1>2. /\ Busy(p) /\ phase[p] = "load" /\ todo' = Rest(p, steps)
      /\ UNCHANGED <<file, phase, root, networks, ops, crashes, ghosts>>
      /\ file["json"] = Torn => steps = <<Revert>>
  BY DEF CtorLoads, Doing
<1> HIDE DEF steps
<1>3. root' \in [Programs -> Configs \union InterfacesTexts \union {Torn}]
  BY <1>2 DEF Inv, TypeOK
<1> QED
  BY <1>1, <1>2, <1>3, LoadedGoesOn

LEMMA ApplyLoadsInv == ASSUME Inv, NEW p \in Programs, ApplyLoads(p) PROVE Inv'
<1> DEFINE steps == IF file["json"] = Torn THEN <<>> ELSE SetSteps(file["json"])
<1>1. steps \in Seq(AllSteps)
  <2>1. CASE file["json"] = Torn
    BY <2>1
  <2>2. CASE file["json"] # Torn
    <3>1. file["json"] \in Configs
      BY <2>2 DEF Inv, TypeOK
    <3>2. SetSteps(file["json"]) \in Seq(AllSteps)
      BY <3>1, ConfigsRequested, SetTypes
    <3> QED
      BY <2>2, <3>2
  <2> QED
    BY <2>1, <2>2
<1>2. /\ Busy(p) /\ phase[p] = "load" /\ todo' = Rest(p, steps)
      /\ UNCHANGED <<file, phase, root, networks, ops, crashes, ghosts>>
      /\ Now(p).do = "apply"
  BY DEF ApplyLoads, Doing
<1> HIDE DEF steps
<1>3. root' \in [Programs -> Configs \union InterfacesTexts \union {Torn}]
  BY <1>2 DEF Inv, TypeOK
<1> QED
  BY <1>1, <1>2, <1>3, LoadedGoesOn

LEMMA SkipsInv == ASSUME Inv, NEW p \in Programs, Skips(p) PROVE Inv'
<1>1. /\ Busy(p) /\ phase[p] = "load" /\ todo' = Rest(p, <<>>)
      /\ UNCHANGED <<file, phase, root, networks, ops, crashes, ghosts>>
      /\ Now(p).do = "add"
  BY DEF Skips, Doing
<1>2. root' \in [Programs -> Configs \union InterfacesTexts \union {Torn}]
  BY <1>1 DEF Inv, TypeOK
<1>3. <<>> \in Seq(AllSteps)
  OBVIOUS
<1> QED
  BY <1>1, <1>2, <1>3, LoadedGoesOn

(* A setter that has loaded goes on with what it found, or gives up.        *)
LEMMA SetterLoadsInv == ASSUME Inv, NEW p \in Programs, SetterLoads(p) PROVE Inv'
<1> USE DEF Inv
<1> DEFINE text == file[FileOf(Now(p))]
<1>1. /\ Busy(p) /\ phase[p] = "load" /\ Now(p).do \in {"will", "add", "interfaces"}
      /\ Now(p).arg \notin Unknown
      /\ root' = [root EXCEPT ![p] = text]
      /\ UNCHANGED <<file, networks, ops, crashes, ghosts>>
  BY DEF SetterLoads, Doing
<1>2. /\ Now(p).do \in {"will", "add"} => text = file["json"]
      /\ Now(p).do = "interfaces" => text = file["interfaces"]
  BY DEF FileOf
<1>3. /\ text \in Configs \union InterfacesTexts \union {Torn}
      /\ Now(p).do \in {"will", "add"} /\ text # Torn => text \in Configs
      /\ Now(p).do = "interfaces" => text \in InterfacesTexts \union {Torn}
  BY <1>1, <1>2 DEF TypeOK
<1> HIDE DEF text
<1>4. /\ root' \in [Programs -> Configs \union InterfacesTexts \union {Torn}]
      /\ root'[p] = text
      /\ \A q \in Programs : q # p => root'[q] = root[q]
  BY <1>1, <1>3 DEF TypeOK
<1>5. CASE todo' = Rest(p, <<>>) /\ UNCHANGED phase
  <2>1. <<>> \in Seq(AllSteps)
    OBVIOUS
  <2> QED
    BY <1>1, <1>4, <1>5, <2>1, LoadedGoesOn
<1>6. CASE /\ phase' = [phase EXCEPT ![p] = "save"] /\ UNCHANGED todo
           /\ text # Torn \/ Now(p).do = "interfaces"
  <2>1. /\ phase' \in [Programs -> {"load", "save", "write"}]
        /\ phase'[p] = "save"
        /\ \A q \in Programs : q # p => phase'[q] = phase[q]
    BY <1>6 DEF TypeOK
  <2>2. TypeOK'
    BY <1>1, <1>4, <1>6, <2>1 DEF TypeOK, ghosts
  <2>3. LoadedInv'
    BY <1>1, <1>3, <1>4, <1>6, <2>1 DEF LoadedInv, Busy, Now
  <2>4. TornHasRepairer'
    <3>1. \A q \in Programs : WritesJson(q) => WritesJson(q)'
      BY <1>1, <1>6, <2>1 DEF WritesJson, Now
    <3>2. Boot \in Programs
      BY DEF Programs
    <3>3. Doing(Boot, {"ctor", "revert"}, "load") => Doing(Boot, {"ctor", "revert"}, "load")'
      BY <1>1, <1>6, <2>1, <3>2 DEF Doing, Busy, Now
    <3> QED
      BY <1>1, <3>1, <3>3 DEF TornHasRepairer
  <2> QED
    BY <2>2, <2>3, <2>4
<1> QED
  BY <1>4, <1>5, <1>6 DEF SetterLoads

(* Whoever truncates the JSON file will write it.                           *)
LEMMA TruncatesInv == ASSUME Inv, NEW p \in Programs, Truncates(p) PROVE Inv'
<1> USE DEF Inv
<1> DEFINE f == FileOf(Now(p))
<1>1. /\ Busy(p) /\ UNCHANGED <<todo, root, networks, ops, crashes, ghosts>>
      /\ file' = [file EXCEPT ![f] = Torn]
      /\ phase' = [phase EXCEPT ![p] = "write"]
      /\ Now(p).do \notin {"ctor", "apply"}
      /\ Now(p).do \in {"will", "add", "interfaces"} => phase[p] = "save"
      /\ Now(p).do \in {"will", "add", "interfaces", "revert", "wpa", "join",
                        "copyWpa", "copyInterfaces"}
  BY DEF Truncates, Doing
<1>2. f \in Files /\ (f = "json" <=> Now(p).do \in {"revert", "will", "add"})
  BY <1>1 DEF FileOf, Files
<1> HIDE DEF f
<1>3. /\ phase' \in [Programs -> {"load", "save", "write"}]
      /\ phase'[p] = "write"
      /\ \A q \in Programs : q # p => phase'[q] = phase[q]
  BY <1>1 DEF TypeOK
<1>4. TypeOK'
  BY <1>1, <1>2, <1>3 DEF TypeOK, ghosts, Files
<1>5. LoadedInv'
  BY <1>1, <1>3 DEF LoadedInv, Busy, Now
<1>6. TornHasRepairer'
  <2>1. CASE f = "json"
    <3>1. WritesJson(p)'
      BY <1>1, <1>2, <1>3, <2>1 DEF WritesJson, Now
    <3> QED
      BY <3>1 DEF TornHasRepairer
  <2>2. CASE f # "json"
    <3>1. file'["json"] = file["json"]
      BY <1>1, <1>2, <2>2 DEF TypeOK, Files
    <3>2. \A q \in Programs : WritesJson(q) => WritesJson(q)'
      BY <1>1, <1>3 DEF WritesJson, Now
    <3>3. Boot \in Programs
      BY DEF Programs
    <3>4. Doing(Boot, {"ctor", "revert"}, "load") => Doing(Boot, {"ctor", "revert"}, "load")'
      BY <1>1, <1>2, <1>3, <2>2, <3>3 DEF Doing, Busy, Now
    <3> QED
      BY <3>1, <3>2, <3>4 DEF TornHasRepairer
  <2> QED
    BY <2>1, <2>2
<1> QED
  BY <1>4, <1>5, <1>6

(* What is written has the type of its file, and is a configuration in the  *)
(* case of the JSON file.                                                   *)
LEMMA TextType ==
  ASSUME Inv, NEW p \in Programs, Busy(p), phase[p] = "write"
  PROVE  /\ FileOf(Now(p)) \in Files
         /\ FileOf(Now(p)) = "json" <=> Now(p).do \in {"revert", "will", "add"}
         /\ FileOf(Now(p)) = "json" => Text(p) \in Configs
         /\ FileOf(Now(p)) = "wpa" => Text(p) \in WpaTexts
         /\ FileOf(Now(p)) = "interfaces" => Text(p) \in InterfacesTexts \union {Torn}
<1> USE DEF Inv
<1> DEFINE s == Now(p)
<1>1. s \in AllSteps /\ s.do \notin {"ctor", "apply"}
  BY NowType DEF LoadedInv
<1>2. Default \in Configs /\ DefaultNets \in WpaTexts
  BY Defaults
<1>3. CASE s.do = "revert"
  BY <1>2, <1>3 DEF FileOf, Text, Files
<1>4. CASE s.do = "will"
  <2>1. root[p] \in Configs /\ s.arg \in BOOLEAN
    BY <1>1, <1>4 DEF LoadedInv, AllSteps
  <2>2. [root[p] EXCEPT !.will = s.arg] \in Configs
    BY <2>1 DEF Configs
  <2> QED
    BY <1>4, <2>2 DEF FileOf, Text, Files
<1>5. CASE s.do = "add"
  <2>1. root[p] \in Configs /\ s.arg \in Ssids
    BY <1>1, <1>5 DEF LoadedInv, AllSteps
  <2>2. Append(root[p].profiles, s.arg) \in Seq(Ssids)
    BY <2>1 DEF Configs
  <2>3. [root[p] EXCEPT !.profiles = Append(@, s.arg)] \in Configs
    BY <2>1, <2>2 DEF Configs
  <2> QED
    BY <1>5, <2>3 DEF FileOf, Text, Files
<1>6. CASE s.do = "interfaces"
  <2>1. root[p] \in InterfacesTexts \union {Torn} /\ s.arg \in BOOLEAN
    BY <1>1, <1>6 DEF LoadedInv, AllSteps
  <2> QED
    BY <1>6, <2>1 DEF FileOf, Text, Files, InterfacesTexts
<1>7. CASE s.do = "copyInterfaces"
  BY <1>7 DEF FileOf, Text, Files, InterfacesTexts, Default
<1>8. CASE s.do = "wpa"
  BY <1>8 DEF FileOf, Text, Files, WpaTexts, TypeOK
<1>9. CASE s.do = "join"
  <2>1. s.arg \in Ssids
    BY <1>1, <1>9 DEF AllSteps
  <2>2. [ssid |-> s.arg, priority |-> 0] \in Entries
    BY <2>1 DEF Entries
  <2> QED
    BY <1>9, <2>2 DEF FileOf, Text, Files, WpaTexts
<1>10. CASE s.do = "copyWpa"
  BY <1>2, <1>10 DEF FileOf, Text, Files
<1> QED
  BY <1>1, <1>3, <1>4, <1>5, <1>6, <1>7, <1>8, <1>9, <1>10 DEF AllSteps

(* A write leaves no torn JSON file; the boot's turn is over only if it has *)
(* written.                                                                 *)
LEMMA WritesInv == ASSUME Inv, NEW p \in Programs, Writes(p) PROVE Inv'
<1> USE DEF Inv
<1> DEFINE f == FileOf(Now(p))
           s == Now(p)
           steps == IF s.do = "will" THEN <<Step("interfaces", s.arg, 0)>> ELSE <<>>
<1>1. /\ Busy(p) /\ phase[p] = "write"
      /\ UNCHANGED <<ops, crashes, ghosts>>
      /\ todo' = Rest(p, steps)
      /\ phase' = [phase EXCEPT ![p] = "load"]
      /\ root' = [root EXCEPT ![p] = Torn]
  BY DEF Writes
<1>2. PICK text \in {Text(p), Torn} :
        /\ file' = [file EXCEPT ![f] = text]
        /\ f = "json" => text = Text(p)
  BY DEF Writes
<1>3. s \in AllSteps
  BY <1>1, NowType
<1>4. steps \in Seq(AllSteps)
  <2>1. s.do = "will" => s.arg \in BOOLEAN
    BY <1>3 DEF AllSteps
  <2>2. s.do = "will" => <<Step("interfaces", s.arg, 0)>> \in Seq(AllSteps)
    BY <2>1, StepTypes
  <2> QED
    BY <2>2
<1>5. networks' \in [Programs -> Seq(Entries)]
  <2> DEFINE next == CASE s.do = "add" -> Append(networks[p], [ssid |-> s.arg, priority |-> s.pri])
                       [] s.do = "wpa" -> <<>>
                       [] OTHER -> networks[p]
  <2>1. networks' = [networks EXCEPT ![p] = next]
    BY DEF Writes
  <2>2. CASE s.do = "add"
    <3>1. s.arg \in Ssids /\ s.pri \in Nat
      BY <1>1, <1>3, <2>2 DEF LoadedInv, AllSteps
    <3>2. [ssid |-> s.arg, priority |-> s.pri] \in Entries
      BY <3>1 DEF Entries
    <3>3. next \in Seq(Entries)
      BY <2>2, <3>2 DEF TypeOK
    <3> QED
      BY <2>1, <3>3 DEF TypeOK
  <2>3. CASE s.do # "add"
    <3>1. next \in Seq(Entries)
      BY <2>3 DEF TypeOK
    <3> QED
      BY <2>1, <3>1 DEF TypeOK
  <2> QED
    BY <2>2, <2>3
<1>6. /\ f \in Files /\ (f = "json" <=> s.do \in {"revert", "will", "add"})
      /\ f = "json" => text \in Configs
      /\ f = "wpa" => text \in WpaTexts \union {Torn}
      /\ f = "interfaces" => text \in InterfacesTexts \union {Torn}
  BY <1>1, <1>2, TextType
<1> HIDE DEF f, s, steps
<1>7. /\ todo' \in [Programs -> Seq(AllSteps)]
      /\ \A q \in Programs : q # p => todo'[q] = todo[q]
  BY <1>1, <1>4, RestType
<1>8. /\ phase' \in [Programs -> {"load", "save", "write"}]
      /\ phase'[p] = "load"
      /\ \A q \in Programs : q # p => phase'[q] = phase[q]
      /\ root' \in [Programs -> Configs \union InterfacesTexts \union {Torn}]
      /\ \A q \in Programs : q # p => root'[q] = root[q]
  BY <1>1 DEF TypeOK
<1>9. TypeOK'
  BY <1>1, <1>2, <1>5, <1>6, <1>7, <1>8 DEF TypeOK, ghosts, Files
<1>10. LoadedInv'
  BY <1>7, <1>8 DEF LoadedInv, Busy, Now
<1>11. TornHasRepairer'
  <2>1. CASE f = "json"
    <3>1. file'["json"] \in Configs
      BY <1>2, <1>6, <2>1 DEF TypeOK, Files
    <3>2. file'["json"] # Torn
      BY <3>1, TornAssumption DEF Configs
    <3> QED
      BY <3>2 DEF TornHasRepairer
  <2>2. CASE f # "json"
    <3>1. file'["json"] = file["json"]
      BY <1>2, <1>6, <2>2 DEF TypeOK, Files
    <3>2. \A q \in Programs : WritesJson(q) => WritesJson(q)'
      BY <1>6, <1>7, <1>8, <2>2 DEF WritesJson, Now, s
    <3>3. Boot \in Programs
      BY DEF Programs
    <3>4. Doing(Boot, {"ctor", "revert"}, "load") => Doing(Boot, {"ctor", "revert"}, "load")'
      BY <1>1, <1>7, <1>8, <3>3 DEF Doing, Busy, Now
    <3> QED
      BY <3>1, <3>2, <3>4 DEF TornHasRepairer
  <2> QED
    BY <2>1, <2>2
<1> QED
  BY <1>9, <1>10, <1>11

(* After a loss of power the boot stands at the constructor, which repairs  *)
(* the file whatever state it is in.                                        *)
LEMMA CrashInv == ASSUME Inv, Crash PROVE Inv'
<1> USE DEF Inv
<1>1. /\ todo' = [p \in Programs |-> IF p = Boot THEN ApplySteps ELSE <<>>]
      /\ phase' = [p \in Programs |-> "load"]
      /\ networks' = [p \in Programs |-> <<>>]
      /\ root' = [p \in Programs |-> Torn]
      /\ serial' = TRUE /\ crashes' = crashes + 1
      /\ Expect(Loaded) /\ UNCHANGED <<file, ops>>
  BY DEF Crash
<1>2. Loaded \in [will : BOOLEAN, profiles : Seq(Ssids \union Unknown)]
  BY Defaults, ConfigsRequested
<1>3. goal' \in [json : [will : BOOLEAN, profiles : Seq(Ssids \union Unknown)],
                 interfaces : InterfacesTexts \union {Torn}]
  <2>1. serial' \in BOOLEAN
    BY <1>1
  <2>2. Torn \in InterfacesTexts \union {Torn}
    OBVIOUS
  <2> QED
    BY <1>1, <1>2, <2>1, <2>2, PromiseType
<1>4. /\ todo' \in [Programs -> Seq(AllSteps)]
      /\ networks' \in [Programs -> Seq(Entries)]
  BY <1>1, StepTypes
<1>5. TypeOK'
  BY <1>1, <1>3, <1>4 DEF TypeOK
<1>6. LoadedInv'
  BY <1>1 DEF LoadedInv
<1>7. TornHasRepairer'
  <2>1. Boot \in Programs
    BY DEF Programs
  <2>2. todo'[Boot] = ApplySteps /\ ApplySteps # <<>> /\ Head(ApplySteps) = Ctor
    BY <1>1, <2>1 DEF ApplySteps
  <2>3. Doing(Boot, {"ctor", "revert"}, "load")'
    BY <1>1, <2>1, <2>2 DEF Doing, Busy, Now, Ctor, Step
  <2> QED
    BY <2>3 DEF TornHasRepairer
<1> QED
  BY <1>5, <1>6, <1>7

LEMMA StepInv == Inv /\ [Next]_vars => Inv'
<1> SUFFICES ASSUME Inv, [Next]_vars PROVE Inv'
  OBVIOUS
<1>1. CASE UNCHANGED vars
  <2>1. TypeOK'
    BY <1>1 DEF Inv, TypeOK, vars
  <2>2. LoadedInv'
    BY <1>1 DEF Inv, LoadedInv, vars, Busy, Now
  <2>3. TornHasRepairer'
    BY <1>1 DEF Inv, TornHasRepairer, WritesJson, Doing, vars, Busy, Now
  <2> QED
    BY <2>1, <2>2, <2>3 DEF Inv
<1>2. ASSUME NEW p \in Users,
             \/ Get(p) \/ SetJson(p) \/ Apply(p) \/ JoinNetwork(p)
             \/ SetWillStartOnBootup(p) \/ RevertToDefault(p)
      PROVE  Inv'
  BY <1>2, UserInv
<1>3. ASSUME NEW p \in Programs, Steps(p) PROVE Inv'
  BY <1>3, CtorLoadsInv, ApplyLoadsInv, SkipsInv, SetterLoadsInv, TruncatesInv,
     WritesInv DEF Steps
<1>4. CASE Crash
  BY <1>4, CrashInv
<1> QED
  BY <1>1, <1>2, <1>3, <1>4 DEF Next

-----------------------------------------------------------------------------
(* The types hold, whatever programs there are: a setter never saves what   *)
(* it could not load.                                                       *)
THEOREM WirelessTypeOK == Spec => []TypeOK
<1>1. Inv => TypeOK
  BY DEF Inv
<1> QED
  BY InitInv, StepInv, <1>1, PTL DEF Spec

(* A torn JSON file always has a program that is bound to repair it.        *)
THEOREM TornIsRepaired == Spec => []TornHasRepairer
<1>1. Inv => TornHasRepairer
  BY DEF Inv
<1> QED
  BY InitInv, StepInv, <1>1, PTL DEF Spec

(* Nobody is left to repair a file when no program is at work.              *)
LEMMA QuietLoads == Inv => QuietJsonLoads
<1>. SUFFICES ASSUME Inv, Quiet, file["json"] = Torn PROVE FALSE
  BY DEF QuietJsonLoads
<1>1. \A p \in Programs : ~Busy(p)
  BY DEF Quiet
<1>2. Boot \in Programs
  BY DEF Programs
<1>3. PICK p \in Programs : WritesJson(p)
  BY <1>1, <1>2 DEF Inv, TornHasRepairer, Doing
<1>. QED
  BY <1>1, <1>3 DEF Inv, LoadedInv, WritesJson

(* When no program is at work the configuration can be loaded, after any    *)
(* number of crashes and with any number of programs that overlap.          *)
THEOREM QuietConfigLoads == Spec => []QuietJsonLoads
BY InitInv, StepInv, QuietLoads, PTL DEF Spec

-----------------------------------------------------------------------------
(* The operations as sequences of steps.                                    *)

(* A configuration as a user may ask for it, with profiles setJson does not *)
(* know.                                                                    *)
Requested == [will : BOOLEAN, profiles : Seq(Ssids \union Unknown)]

(* The steps of the operations, by name.  Profile(c, i) is the step of the  *)
(* i-th profile of c.                                                       *)
Will(b) == Step("will", b, 0)
Interfaces(b) == Step("interfaces", b, 0)
Profile(c, i) == Step("add", c.profiles[i], Len(c.profiles) + 1 - i)
Wpa == Step("wpa", 0, 0)
ApplyStep == Step("apply", 0, 0)
CopyWpa == Step("copyWpa", 0, 0)
CopyInterfaces == Step("copyInterfaces", 0, 0)

(* What is left of SetSteps(c) when its i-th profile is next.               *)
Remaining(c, i) ==
  [k \in 1 .. Len(c.profiles) + 2 - i |->
     IF k <= Len(c.profiles) + 1 - i THEN Profile(c, i - 1 + k) ELSE Wpa]

(* The named steps are steps.                                               *)
LEMMA StepsAre ==
  /\ Ctor \in AllSteps /\ Revert \in AllSteps /\ Wpa \in AllSteps /\ ApplyStep \in AllSteps
  /\ CopyWpa \in AllSteps /\ CopyInterfaces \in AllSteps
  /\ \A b \in BOOLEAN : Will(b) \in AllSteps /\ Interfaces(b) \in AllSteps
BY DEF Ctor, Revert, Wpa, ApplyStep, CopyWpa, CopyInterfaces, Will, Interfaces, Step, AllSteps

(* A step put before an operation is its head.                              *)
LEMMA FirstIs ==
  ASSUME NEW step \in AllSteps, NEW rest \in Seq(AllSteps)
  PROVE  /\ <<step>> \o rest \in Seq(AllSteps) /\ <<step>> \o rest # <<>>
         /\ Head(<<step>> \o rest) = step /\ Tail(<<step>> \o rest) = rest
<1>. DEFINE s == <<step>> \o rest
<1>1. <<step>> \in Seq(AllSteps) /\ Len(<<step>>) = 1 /\ <<step>>[1] = step
  OBVIOUS
<1>2. /\ s \in Seq(AllSteps) /\ Len(s) = 1 + Len(rest)
      /\ \A i \in 1 .. 1 + Len(rest) : s[i] = IF i <= 1 THEN <<step>>[i] ELSE rest[i - 1]
  BY <1>1, ConcatProperties
<1>3. Len(rest) \in Nat
  BY LenProperties
<1>. HIDE DEF s
<1>4. s # <<>> /\ s[1] = step
  BY <1>1, <1>2, <1>3, EmptySeq
<1>5. /\ Tail(s) \in Seq(AllSteps) /\ Len(Tail(s)) = Len(rest)
      /\ \A i \in 1 .. Len(rest) : Tail(s)[i] = s[i + 1]
  BY <1>2, <1>3, <1>4, HeadTailProperties
<1>6. \A i \in 1 .. Len(rest) : Tail(s)[i] = rest[i]
  BY <1>2, <1>3, <1>5
<1>7. Tail(s) = rest
  BY <1>5, <1>6, SeqEqual
<1>8. Head(s) = s[1]
  BY <1>2, <1>4
<1>. QED
  BY <1>2, <1>4, <1>7, <1>8 DEF s

(* Remaining(c, i) begins with the i-th profile, or is the writing of       *)
(* wpa_supplicant.conf alone.                                               *)
LEMMA RemainingIs ==
  ASSUME NEW c \in Requested, NEW i \in 1 .. Len(c.profiles) + 1
  PROVE  /\ Remaining(c, i) \in Seq(AllSteps) /\ Remaining(c, i) # <<>>
         /\ i <= Len(c.profiles) => /\ Head(Remaining(c, i)) = Profile(c, i)
                                    /\ Tail(Remaining(c, i)) = Remaining(c, i + 1)
         /\ i = Len(c.profiles) + 1 => Remaining(c, i) = <<Wpa>>
<1>. DEFINE n == Len(c.profiles)
            At(m, k) == IF k <= n + 1 - m THEN Profile(c, m - 1 + k) ELSE Wpa
            R(m) == [k \in 1 .. n + 2 - m |-> At(m, k)]
<1>1. n \in Nat
  BY LenProperties DEF Requested
<1>2. ASSUME NEW m \in 1 .. n PROVE Profile(c, m) \in AllSteps
  <2>1. c.profiles[m] \in Ssids \union Unknown
    BY DEF Requested
  <2>2. n + 1 - m \in Nat
    BY <1>1
  <2>. QED
    BY <2>1, <2>2 DEF Profile, Step, AllSteps
<1>. HIDE DEF n
<1>3. ASSUME NEW m \in 1 .. n + 1
      PROVE  R(m) \in Seq(AllSteps) /\ Len(R(m)) = n + 2 - m
  <2>1. ASSUME NEW k \in 1 .. n + 2 - m PROVE At(m, k) \in AllSteps
    <3>1. CASE k <= n + 1 - m
      <4>1. m - 1 + k \in 1 .. n
        BY <1>1, <3>1
      <4>. QED
        BY <1>2, <3>1, <4>1
    <3>2. CASE ~(k <= n + 1 - m)
      BY <3>2, StepsAre
    <3>. QED
      BY <3>1, <3>2
  <2>2. n + 2 - m \in Nat
    BY <1>1
  <2>. HIDE DEF At
  <2>3. R(m) \in Seq(AllSteps)
    BY <2>1, <2>2, IsASeq
  <2>. QED
    BY <2>2, <2>3
<1>4. \A m \in 1 .. n + 1 : Remaining(c, m) = R(m)
  BY DEF Remaining, n
<1>5. i \in 1 .. n + 1
  BY DEF n
<1>6. R(i) \in Seq(AllSteps) /\ Len(R(i)) = n + 2 - i /\ R(i) # <<>> /\ Head(R(i)) = R(i)[1]
  <2>1. n + 2 - i >= 1
    BY <1>1, <1>5
  <2>2. R(i) \in Seq(AllSteps) /\ Len(R(i)) = n + 2 - i
    BY <1>3, <1>5
  <2>. HIDE DEF R
  <2>3. R(i) # <<>>
    BY <2>1, <2>2, EmptySeq
  <2>. QED
    BY <2>2, <2>3
<1>7. ASSUME i <= n PROVE Head(R(i)) = Profile(c, i) /\ Tail(R(i)) = R(i + 1)
  <2>2. R(i)[1] = Profile(c, i)
    <3>1. 1 \in 1 .. n + 2 - i /\ 1 <= n + 1 - i /\ i - 1 + 1 = i
      BY <1>1, <1>5, <1>7
    <3>. QED
      BY <3>1
  <2>3. i + 1 \in 1 .. n + 1
    BY <1>1, <1>5, <1>7
  <2>4. R(i + 1) \in Seq(AllSteps) /\ Len(R(i + 1)) = n + 2 - (i + 1)
    BY <1>3, <2>3
  <2>5. /\ Tail(R(i)) \in Seq(AllSteps) /\ Len(Tail(R(i))) = n + 2 - i - 1
        /\ \A k \in 1 .. n + 2 - i - 1 : Tail(R(i))[k] = R(i)[k + 1]
    <3>. DEFINE r == R(i)
    <3>1. r \in Seq(AllSteps) /\ r # <<>> /\ Len(r) = n + 2 - i
      BY <1>6
    <3>. HIDE DEF r
    <3>2. /\ Tail(r) \in Seq(AllSteps) /\ Len(Tail(r)) = n + 2 - i - 1
          /\ \A k \in 1 .. Len(Tail(r)) : Tail(r)[k] = r[k + 1]
      BY <1>1, <1>5, <3>1, HeadTailProperties
    <3>. QED
      BY <3>2 DEF r
  <2>6. ASSUME NEW k \in 1 .. n + 2 - i - 1 PROVE Tail(R(i))[k] = R(i + 1)[k]
    <3>1. k + 1 \in 1 .. n + 2 - i /\ k \in 1 .. n + 2 - (i + 1)
      BY <1>1, <1>5
    <3>2. R(i)[k + 1] = At(i, k + 1) /\ R(i + 1)[k] = At(i + 1, k)
      BY <3>1
    <3>3. At(i, k + 1) = At(i + 1, k)
      <4>1. (k + 1 <= n + 1 - i) = (k <= n + 1 - (i + 1)) /\ i - 1 + (k + 1) = i + 1 - 1 + k
        BY <1>1, <1>5
      <4>. QED
        BY <4>1
    <3>. QED
      BY <2>5, <3>2, <3>3
  <2>7. n + 2 - i - 1 = n + 2 - (i + 1)
    BY <1>1, <1>5
  <2>. HIDE DEF R
  <2>8. Tail(R(i)) = R(i + 1)
    BY <2>4, <2>5, <2>6, <2>7, SeqEqual
  <2>. QED
    BY <1>6, <2>2, <2>8
<1>8. ASSUME i = n + 1 PROVE R(i) = <<Wpa>>
  <2>1. n + 2 - i = 1 /\ ~(1 <= n + 1 - i)
    BY <1>1, <1>8
  <2>2. R(i)[1] = Wpa
    BY <2>1
  <2>3. <<Wpa>> \in Seq(AllSteps) /\ Len(<<Wpa>>) = 1 /\ <<Wpa>>[1] = Wpa
    BY StepsAre
  <2>4. \A k \in 1 .. Len(R(i)) : R(i)[k] = <<Wpa>>[k]
    BY <1>6, <2>1, <2>2, <2>3
  <2>. HIDE DEF R
  <2>. QED
    BY <1>6, <2>1, <2>3, <2>4, SeqEqual
<1>9. i + 1 \in 1 .. n + 1 \/ i = n + 1
  BY <1>1, <1>5
<1>. HIDE DEF R
<1>10. i <= n => i + 1 \in 1 .. n + 1
  BY <1>1, <1>5
<1>. QED
  BY <1>4, <1>5, <1>6, <1>7, <1>8, <1>10 DEF n

(* setJson reverts the file, sets the flag, and goes through the profiles.  *)
LEMMA SetIs ==
  ASSUME NEW c \in Requested
  PROVE  SetSteps(c) = <<Revert>> \o (<<Will(c.will)>> \o Remaining(c, 1))
<1>. DEFINE n == Len(c.profiles)
            adds == [i \in 1 .. n |-> Step("add", c.profiles[i], n + 1 - i)]
<1>1. n \in Nat
  BY LenProperties DEF Requested
<1>2. \A i \in 1 .. n : Step("add", c.profiles[i], n + 1 - i) \in AllSteps
  <2> TAKE i \in 1 .. n
  <2>1. c.profiles[i] \in Ssids \union Unknown
    BY DEF Requested
  <2>2. n + 1 - i \in Nat \ {0}
    BY <1>1
  <2> QED
    BY <2>1, <2>2 DEF Step, AllSteps
<1>3. adds \in Seq(AllSteps) /\ Len(adds) = n
  BY <1>1, <1>2, IsASeq
<1>4. Wpa \in AllSteps /\ Revert \in AllSteps /\ Will(c.will) \in AllSteps
  BY StepsAre DEF Requested
<1>5. <<Wpa>> \in Seq(AllSteps) /\ Len(<<Wpa>>) = 1 /\ <<Wpa>>[1] = Wpa
  BY <1>4
<1>6. Remaining(c, 1) \in Seq(AllSteps)
  BY <1>1, RemainingIs
<1>7. adds \o <<Wpa>> = Remaining(c, 1)
  <2>1. /\ adds \o <<Wpa>> \in Seq(AllSteps) /\ Len(adds \o <<Wpa>>) = n + 1
        /\ \A i \in 1 .. n + 1 : (adds \o <<Wpa>>)[i] = IF i <= n THEN adds[i] ELSE <<Wpa>>[i - n]
    BY <1>3, <1>5, ConcatProperties
  <2>2. n + 2 - 1 = n + 1 /\ n + 1 - 1 = n
    BY <1>1
  <2>3. Len(Remaining(c, 1)) = n + 1
    BY <1>1, <2>2 DEF Remaining
  <2>4. ASSUME NEW i \in 1 .. n + 1 PROVE (adds \o <<Wpa>>)[i] = Remaining(c, 1)[i]
    <3>1. Remaining(c, 1)[i] = IF i <= n THEN Profile(c, 1 - 1 + i) ELSE Wpa
      BY <2>2 DEF Remaining
    <3>2. CASE i <= n
      <4>1. i \in 1 .. n /\ 1 - 1 + i = i
        BY <1>1, <3>2
      <4>. QED
        BY <2>1, <3>1, <3>2, <4>1 DEF Profile
    <3>3. CASE ~(i <= n)
      <4>1. i = n + 1 /\ i - n = 1
        BY <1>1, <3>3
      <4>. QED
        BY <1>5, <2>1, <3>1, <3>3, <4>1
    <3>. QED
      BY <3>2, <3>3
  <2>. QED
    BY <1>6, <2>1, <2>3, <2>4, SeqEqual
<1>. DEFINE two == <<Revert, Will(c.will)>>
            one == <<Will(c.will)>>
<1>8. two \in Seq(AllSteps) /\ two = <<Revert>> \o one /\ one \in Seq(AllSteps) /\ <<Revert>> \in Seq(AllSteps)
  BY <1>4
<1>9. SetSteps(c) = two \o adds \o <<Wpa>>
  BY DEF SetSteps, Will, Wpa
<1>. HIDE DEF adds, two, one, n
<1>10. two \o adds \o <<Wpa>> = two \o Remaining(c, 1)
  <2>1. (two \o adds) \o <<Wpa>> = two \o (adds \o <<Wpa>>)
    BY <1>3, <1>5, <1>8, ConcatAssociative
  <2>. QED
    BY <1>7, <2>1
<1>11. two \o Remaining(c, 1) = <<Revert>> \o (one \o Remaining(c, 1))
  BY <1>6, <1>8, ConcatAssociative
<1>. QED
  BY <1>9, <1>10, <1>11 DEF one

(* The steps of applyConfiguration and of revertToDefault, one after the    *)
(* other.                                                                   *)
LEMMA ShortIs ==
  /\ ApplySteps \in Seq(AllSteps) /\ ApplySteps # <<>>
  /\ Head(ApplySteps) = Ctor /\ Tail(ApplySteps) = <<ApplyStep>>
  /\ ResetSteps \in Seq(AllSteps) /\ ResetSteps # <<>>
  /\ Head(ResetSteps) = Ctor /\ Tail(ResetSteps) = <<Revert, CopyWpa, CopyInterfaces>>
  /\ <<Revert, CopyWpa, CopyInterfaces>> # <<>> /\ <<CopyWpa, CopyInterfaces>> # <<>>
  /\ Head(<<Revert, CopyWpa, CopyInterfaces>>) = Revert
  /\ Tail(<<Revert, CopyWpa, CopyInterfaces>>) = <<CopyWpa, CopyInterfaces>>
  /\ Head(<<CopyWpa, CopyInterfaces>>) = CopyWpa
  /\ Tail(<<CopyWpa, CopyInterfaces>>) = <<CopyInterfaces>>
<1>1. ApplySteps = <<Ctor, ApplyStep>>
  BY DEF ApplySteps, ApplyStep
<1>2. ResetSteps = <<Ctor, Revert, CopyWpa, CopyInterfaces>>
  BY DEF ResetSteps, CopyWpa, CopyInterfaces
<1>. QED
  BY <1>1, <1>2, StepsAre

(* An operation of a single step.                                           *)
LEMMA OneIs == \A step \in AllSteps : <<step>> # <<>> /\ Head(<<step>>) = step /\ Tail(<<step>>) = <<>>
OBVIOUS

-----------------------------------------------------------------------------
(* What is left of an operation, and what it needs.                         *)

(* What the files should say, as the ghost keeps it.                        *)
Goals == [json : Requested, interfaces : InterfacesTexts \union {Torn}]

(* The interfaces file is yet to be set, and the goal knows what that will  *)
(* make of it: a file that is torn stays torn.                              *)
Ahead(g, interfaces) ==
  g.interfaces = IF interfaces = Torn THEN Torn ELSE [auto |-> g.json.will]

(* The places among the first m profiles that setJson knows.                *)
Places(all, m) == {j \in 1 .. m : all[j] \notin Unknown}

(* kept is what setJson keeps of the first m profiles of all.               *)
Keeps(kept, all, m) ==
  \E f \in [1 .. Len(kept) -> Places(all, m)] :
    /\ \A j \in Places(all, m) : \E k \in 1 .. Len(kept) : f[k] = j
    /\ \A k, l \in 1 .. Len(kept) : k < l => f[k] < f[l]
    /\ \A k \in 1 .. Len(kept) : kept[k] = all[f[k]]

(* The networks are those of the profiles, each ranked above the next and   *)
(* the last above least.                                                    *)
Ranked(nets, profiles, least) ==
  /\ Len(nets) = Len(profiles)
  /\ \A k \in 1 .. Len(profiles) : nets[k].ssid = profiles[k] /\ nets[k].priority > least
  /\ \A k \in 1 .. Len(profiles) - 1 : nets[k].priority > nets[k + 1].priority

(* The state in which the i-th profile is next: the flag is set in both     *)
(* files, the JSON file has the profiles before it that are known, and the  *)
(* networks are theirs.                                                     *)
Gathered(g, i, json, interfaces, nets) ==
  /\ interfaces = g.interfaces /\ json \in Configs /\ json.will = g.json.will
  /\ Keeps(json.profiles, g.json.profiles, i - 1)
  /\ nets \in Seq(Entries) /\ Ranked(nets, json.profiles, Len(g.json.profiles) + 1 - i)

(* SetSteps without its revert.                                             *)
SetRest(c) == <<Will(c.will)>> \o Remaining(c, 1)

(* What must hold, and what must be left to do, when a step of the given    *)
(* kind is next: together they say that the rest of the operation leaves    *)
(* the files as the goal says.  The constructor is the first step of most   *)
(* operations.                                                              *)
ReadyCtor(g, rest, json, wpa, interfaces) ==
  \/ rest = <<>> /\ Exact(g, json, wpa, interfaces)
  \/ rest = SetSteps(g.json) /\ json # Torn /\ Ahead(g, interfaces)
  \/ rest = <<ApplyStep>> /\ g.json = (IF json = Torn THEN Default ELSE json) /\ Ahead(g, interfaces)
  \/ rest = <<Revert, CopyWpa, CopyInterfaces>> /\ g = NoGoal /\ json # Torn

(* The revert is part of setJson or of revertToDefault, or a repair by the  *)
(* constructor.                                                             *)
ReadyRevert(g, rest, interfaces) ==
  \/ rest = SetRest(g.json) /\ Ahead(g, interfaces)
  \/ rest = <<ApplyStep>> /\ g.json = Default /\ Ahead(g, interfaces)
  \/ rest = <<CopyWpa, CopyInterfaces>> /\ g = NoGoal

(* The flag is set by setJson, on the default file, or alone.               *)
ReadyWill(g, rest, json, wpa, interfaces) ==
  /\ Ahead(g, interfaces)
  /\ \/ rest = Remaining(g.json, 1) /\ json = Default
     \/ /\ rest = <<>> /\ g.json \in Configs /\ json \in Configs
        /\ g.json = [json EXCEPT !.will = g.json.will] /\ Follows(wpa, json.profiles)

(* The interfaces file follows the flag.                                    *)
ReadyInterfaces(g, rest, json, wpa, interfaces) ==
  /\ Ahead(g, interfaces)
  /\ \/ rest = Remaining(g.json, 1) /\ json = [will |-> g.json.will, profiles |-> <<>>]
     \/ rest = <<>> /\ g.json \in Configs /\ json = g.json /\ Follows(wpa, json.profiles)

(* applyConfiguration has a file to load.                                   *)
ReadyApply(g, rest, json, interfaces) ==
  rest = <<>> /\ json # Torn /\ g.json = json /\ Ahead(g, interfaces)

(* A join is followed by applyConfiguration.                                *)
ReadyJoin(g, rest, json, interfaces) ==
  rest = ApplySteps /\ g.json = (IF json = Torn THEN Default ELSE json) /\ Ahead(g, interfaces)

(* The operation op, begun with these files and networks by a program that  *)
(* is alone, leaves the files as g says.                                    *)
Ready(g, op, json, wpa, interfaces, nets) ==
  \/ op = <<>> /\ nets = <<>> /\ Exact(g, json, wpa, interfaces)
  \/ /\ op # <<>> /\ nets = <<>>
     /\ \/ Head(op) = Ctor /\ ReadyCtor(g, Tail(op), json, wpa, interfaces)
        \/ Head(op) = Revert /\ ReadyRevert(g, Tail(op), interfaces)
        \/ Head(op) = Will(g.json.will) /\ ReadyWill(g, Tail(op), json, wpa, interfaces)
        \/ Head(op) = Interfaces(g.json.will) /\ ReadyInterfaces(g, Tail(op), json, wpa, interfaces)
        \/ Head(op) = ApplyStep /\ ReadyApply(g, Tail(op), json, interfaces)
        \/ (\E s \in Ssids : Head(op) = Step("join", s, 0)) /\ ReadyJoin(g, Tail(op), json, interfaces)
        \/ Head(op) = CopyWpa /\ Tail(op) = <<CopyInterfaces>> /\ g = NoGoal /\ json = Default
        \/ /\ Head(op) = CopyInterfaces /\ Tail(op) = <<>> /\ g = NoGoal /\ json = Default
           /\ wpa = DefaultNets
  \/ \E i \in 1 .. Len(g.json.profiles) + 1 :
       op = Remaining(g.json, i) /\ Gathered(g, i, json, interfaces, nets)

(* The fields of a step.                                                    *)
LEMMA StepIs == \A d, a, r : Step(d, a, r).do = d /\ Step(d, a, r).arg = a /\ Step(d, a, r).pri = r
BY DEF Step

(* Ready, read from the kind of the step that is next.                      *)
LEMMA ReadyIs ==
  ASSUME NEW g \in Goals, NEW op \in Seq(AllSteps), op # <<>>,
         NEW json, NEW wpa, NEW interfaces, NEW nets,
         Ready(g, op, json, wpa, interfaces, nets)
  PROVE  LET do == Head(op).do
             rest == Tail(op)
         IN /\ do # "add" /\ do # "wpa" => nets = <<>>
            /\ do = "ctor" => ReadyCtor(g, rest, json, wpa, interfaces)
            /\ do = "revert" => Head(op) = Revert /\ ReadyRevert(g, rest, interfaces)
            /\ do = "will" => Head(op) = Will(g.json.will) /\ ReadyWill(g, rest, json, wpa, interfaces)
            /\ do = "interfaces" => /\ Head(op) = Interfaces(g.json.will)
                                    /\ ReadyInterfaces(g, rest, json, wpa, interfaces)
            /\ do = "apply" => ReadyApply(g, rest, json, interfaces)
            /\ do = "join" => /\ \E s \in Ssids : Head(op) = Step("join", s, 0)
                               /\ ReadyJoin(g, rest, json, interfaces)
            /\ do = "copyWpa" => Head(op) = CopyWpa /\ rest = <<CopyInterfaces>> /\ g = NoGoal /\ json = Default
            /\ do = "copyInterfaces" => /\ Head(op) = CopyInterfaces /\ rest = <<>> /\ g = NoGoal
                                         /\ json = Default /\ wpa = DefaultNets
            /\ do = "add" => \E i \in 1 .. Len(g.json.profiles) :
                               /\ Head(op) = Profile(g.json, i) /\ rest = Remaining(g.json, i + 1)
                               /\ Gathered(g, i, json, interfaces, nets)
            /\ do = "wpa" =>
                 /\ op = Remaining(g.json, Len(g.json.profiles) + 1) /\ rest = <<>>
                 /\ Gathered(g, Len(g.json.profiles) + 1, json, interfaces, nets)
<1>. DEFINE n == Len(g.json.profiles)
<1>0. g.json \in Requested /\ n \in Nat
  BY LenProperties DEF Goals, Requested
<1>1. /\ Ctor.do = "ctor" /\ Revert.do = "revert" /\ Wpa.do = "wpa" /\ ApplyStep.do = "apply"
      /\ CopyWpa.do = "copyWpa" /\ CopyInterfaces.do = "copyInterfaces"
      /\ \A b : Will(b).do = "will" /\ Interfaces(b).do = "interfaces"
      /\ \A c, i : Profile(c, i).do = "add"
      /\ \A s : Step("join", s, 0).do = "join"
  BY StepIs DEF Ctor, Revert, Wpa, ApplyStep, CopyWpa, CopyInterfaces, Will, Interfaces, Profile
<1>. HIDE DEF n
<1>2. CASE \E i \in 1 .. n + 1 : op = Remaining(g.json, i) /\ Gathered(g, i, json, interfaces, nets)
  <2>1. PICK i \in 1 .. n + 1 : op = Remaining(g.json, i) /\ Gathered(g, i, json, interfaces, nets)
    BY <1>2
  <2>2. CASE i <= n
    <3>1. i \in 1 .. n /\ Head(op) = Profile(g.json, i) /\ Tail(op) = Remaining(g.json, i + 1)
      BY <1>0, <2>1, <2>2, RemainingIs DEF n
    <3>2. Head(op).do = "add"
      BY <1>1, <3>1
    <3>. QED
      BY <2>1, <3>1, <3>2 DEF n
  <2>3. CASE ~(i <= n)
    <3>0. i = n + 1
      BY <1>0, <2>1, <2>3
    <3>1. op = <<Wpa>>
      BY <1>0, <2>1, <3>0, RemainingIs DEF n
    <3>2. Head(op) = Wpa /\ Tail(op) = <<>>
      BY <3>1, OneIs, StepsAre
    <3>3. Head(op).do = "wpa"
      BY <1>1, <3>2
    <3>. QED
      BY <2>1, <3>0, <3>2, <3>3 DEF n
  <2>. QED
    BY <2>2, <2>3
<1>3. CASE ~(\E i \in 1 .. n + 1 : op = Remaining(g.json, i) /\ Gathered(g, i, json, interfaces, nets))
  <2>. DEFINE h == Head(op)
              t == Tail(op)
  <2>1. /\ nets = <<>>
        /\ \/ h = Ctor /\ ReadyCtor(g, t, json, wpa, interfaces)
           \/ h = Revert /\ ReadyRevert(g, t, interfaces)
           \/ h = Will(g.json.will) /\ ReadyWill(g, t, json, wpa, interfaces)
           \/ h = Interfaces(g.json.will) /\ ReadyInterfaces(g, t, json, wpa, interfaces)
           \/ h = ApplyStep /\ ReadyApply(g, t, json, interfaces)
           \/ (\E s \in Ssids : h = Step("join", s, 0)) /\ ReadyJoin(g, t, json, interfaces)
           \/ h = CopyWpa /\ t = <<CopyInterfaces>> /\ g = NoGoal /\ json = Default
           \/ /\ h = CopyInterfaces /\ t = <<>> /\ g = NoGoal /\ json = Default
              /\ wpa = DefaultNets
    BY <1>3 DEF Ready, n
  <2>. HIDE DEF h, t
  <2>2. h.do # "add" /\ h.do # "wpa"
    BY <1>1, <2>1
  <2>. QED
    <3>1. /\ h.do = "ctor" => ReadyCtor(g, t, json, wpa, interfaces)
          /\ h.do = "revert" => h = Revert /\ ReadyRevert(g, t, interfaces)
          /\ h.do = "will" => h = Will(g.json.will) /\ ReadyWill(g, t, json, wpa, interfaces)
          /\ h.do = "interfaces" => h = Interfaces(g.json.will) /\ ReadyInterfaces(g, t, json, wpa, interfaces)
          /\ h.do = "apply" => ReadyApply(g, t, json, interfaces)
          /\ h.do = "join" => (\E s \in Ssids : h = Step("join", s, 0)) /\ ReadyJoin(g, t, json, interfaces)
          /\ h.do = "copyWpa" => h = CopyWpa /\ t = <<CopyInterfaces>> /\ g = NoGoal /\ json = Default
          /\ h.do = "copyInterfaces" => /\ h = CopyInterfaces /\ t = <<>> /\ g = NoGoal
                                         /\ json = Default /\ wpa = DefaultNets
      BY <1>1, <2>1
    <3>. QED
      BY <2>1, <2>2, <3>1 DEF h, t
<1>. QED
  BY <1>2, <1>3

(* setJson among its profiles is ready.                                     *)
LEMMA ReadyRemaining ==
  ASSUME NEW g \in Goals, NEW i \in 1 .. Len(g.json.profiles) + 1,
         NEW json, NEW wpa, NEW interfaces, NEW nets,
         Gathered(g, i, json, interfaces, nets)
  PROVE  Ready(g, Remaining(g.json, i), json, wpa, interfaces, nets)
BY DEF Ready

(* setJson is ready whatever the JSON file holds, its revert included or,   *)
(* on the default file, without it.                                         *)
LEMMA ReadySet ==
  ASSUME NEW g \in Goals, NEW json, NEW wpa, NEW interfaces, Ahead(g, interfaces)
  PROVE  /\ SetSteps(g.json) \in Seq(AllSteps)
         /\ Ready(g, SetSteps(g.json), json, wpa, interfaces, <<>>)
         /\ json = Default => Ready(g, SetRest(g.json), json, wpa, interfaces, <<>>)
<1>1. g.json \in Requested /\ Len(g.json.profiles) \in Nat /\ g.json.will \in BOOLEAN
  BY LenProperties DEF Goals, Requested
<1>2. Remaining(g.json, 1) \in Seq(AllSteps)
  BY <1>1, RemainingIs
<1>3. Will(g.json.will) \in AllSteps /\ Revert \in AllSteps
  BY <1>1, StepsAre
<1>4. /\ SetRest(g.json) \in Seq(AllSteps) /\ SetRest(g.json) # <<>>
      /\ Head(SetRest(g.json)) = Will(g.json.will) /\ Tail(SetRest(g.json)) = Remaining(g.json, 1)
  BY <1>2, <1>3, FirstIs DEF SetRest
<1>5. /\ SetSteps(g.json) \in Seq(AllSteps) /\ SetSteps(g.json) # <<>>
      /\ Head(SetSteps(g.json)) = Revert /\ Tail(SetSteps(g.json)) = SetRest(g.json)
  <2>1. SetSteps(g.json) = <<Revert>> \o SetRest(g.json)
    BY <1>1, SetIs DEF SetRest
  <2>. QED
    BY <1>3, <1>4, <2>1, FirstIs
<1>. QED
  BY <1>4, <1>5 DEF Ready, ReadyRevert, ReadyWill

(* The constructor leaves the operation ready; what it repairs is reverted. *)
LEMMA CtorGoesOn ==
  ASSUME NEW g \in Goals, NEW op \in Seq(AllSteps), op # <<>>,
         NEW json, NEW wpa, NEW interfaces, NEW nets,
         Ready(g, op, json, wpa, interfaces, nets), Head(op).do = "ctor"
  PROVE  /\ json = Torn => Ready(g, <<Revert>> \o Tail(op), json, wpa, interfaces, nets)
         /\ json # Torn => Ready(g, Tail(op), json, wpa, interfaces, nets)
<1>1. ReadyCtor(g, Tail(op), json, wpa, interfaces) /\ nets = <<>>
  BY ReadyIs
<1>2. CASE Tail(op) = <<>> /\ Exact(g, json, wpa, interfaces)
  BY <1>1, <1>2 DEF Ready, Exact
<1>3. CASE Tail(op) = SetSteps(g.json) /\ json # Torn /\ Ahead(g, interfaces)
  BY <1>1, <1>3, ReadySet
<1>4. CASE /\ Tail(op) = <<ApplyStep>> /\ g.json = (IF json = Torn THEN Default ELSE json)
           /\ Ahead(g, interfaces)
  <2>1. Tail(op) # <<>> /\ Head(Tail(op)) = ApplyStep /\ Tail(Tail(op)) = <<>>
    BY <1>4, OneIs, StepsAre
  <2>2. /\ <<Revert>> \o Tail(op) # <<>> /\ Head(<<Revert>> \o Tail(op)) = Revert
        /\ Tail(<<Revert>> \o Tail(op)) = Tail(op)
    BY FirstIs, StepsAre, HeadTailProperties
  <2>3. CASE json = Torn
    BY <1>1, <1>4, <2>2, <2>3 DEF Ready, ReadyRevert
  <2>4. CASE json # Torn
    BY <1>1, <1>4, <2>1, <2>4 DEF Ready, ReadyApply
  <2>. QED
    BY <2>3, <2>4
<1>5. CASE Tail(op) = <<Revert, CopyWpa, CopyInterfaces>> /\ g = NoGoal /\ json # Torn
  <2>1. Tail(op) # <<>> /\ Head(Tail(op)) = Revert /\ Tail(Tail(op)) = <<CopyWpa, CopyInterfaces>>
    BY <1>5, ShortIs
  <2>. QED
    BY <1>1, <1>5, <2>1 DEF Ready, ReadyRevert
<1>. QED
  BY <1>1, <1>2, <1>3, <1>4, <1>5 DEF ReadyCtor

(* applyConfiguration finds a file and sets what is in it.                  *)
LEMMA ApplyGoesOn ==
  ASSUME NEW g \in Goals, NEW op \in Seq(AllSteps), op # <<>>,
         NEW json, NEW wpa, NEW interfaces, NEW nets,
         Ready(g, op, json, wpa, interfaces, nets), Head(op).do = "apply"
  PROVE  json # Torn /\ Ready(g, SetSteps(json) \o Tail(op), json, wpa, interfaces, nets)
<1>1. nets = <<>> /\ Tail(op) = <<>> /\ json # Torn /\ g.json = json /\ Ahead(g, interfaces)
  BY ReadyIs DEF ReadyApply
<1>2. SetSteps(json) \in Seq(AllSteps) /\ Ready(g, SetSteps(json), json, wpa, interfaces, nets)
  BY <1>1, ReadySet
<1>3. SetSteps(json) \o Tail(op) = SetSteps(json)
  BY <1>1, <1>2, ConcatEmptySeq
<1>. QED
  BY <1>1, <1>2, <1>3

(* A step that writes a whole file does not depend on what was in it.       *)
LEMMA OverwritesAny ==
  ASSUME NEW g \in Goals, NEW op \in Seq(AllSteps), op # <<>>,
         NEW json, NEW wpa, NEW interfaces, NEW nets,
         Ready(g, op, json, wpa, interfaces, nets)
  PROVE  /\ Head(op).do = "revert" => Ready(g, op, Torn, wpa, interfaces, nets)
         /\ Head(op).do \in {"wpa", "join", "copyWpa"} => Ready(g, op, json, Torn, interfaces, nets)
         /\ Head(op).do = "copyInterfaces" => Ready(g, op, json, wpa, Torn, nets)
<1>1. CASE Head(op).do = "revert"
  <2>1. nets = <<>> /\ Head(op) = Revert /\ ReadyRevert(g, Tail(op), interfaces)
    BY <1>1, ReadyIs
  <2>. QED
    BY <1>1, <2>1 DEF Ready
<1>2. CASE Head(op).do = "wpa"
  <2>1. op = Remaining(g.json, Len(g.json.profiles) + 1)
        /\ Gathered(g, Len(g.json.profiles) + 1, json, interfaces, nets)
    BY <1>2, ReadyIs
  <2>2. Len(g.json.profiles) + 1 \in 1 .. Len(g.json.profiles) + 1
    BY LenProperties DEF Goals, Requested
  <2>. QED
    BY <1>2, <2>1, <2>2, ReadyRemaining
<1>3. CASE Head(op).do = "join"
  <2>1. /\ nets = <<>> /\ \E s \in Ssids : Head(op) = Step("join", s, 0)
        /\ ReadyJoin(g, Tail(op), json, interfaces)
    BY <1>3, ReadyIs
  <2>. QED
    BY <1>3, <2>1 DEF Ready
<1>4. CASE Head(op).do = "copyWpa"
  <2>1. nets = <<>> /\ Head(op) = CopyWpa /\ Tail(op) = <<CopyInterfaces>> /\ g = NoGoal /\ json = Default
    BY <1>4, ReadyIs
  <2>. QED
    BY <1>4, <2>1 DEF Ready
<1>5. CASE Head(op).do = "copyInterfaces"
  <2>1. /\ nets = <<>> /\ Head(op) = CopyInterfaces /\ Tail(op) = <<>> /\ g = NoGoal /\ json = Default
        /\ wpa = DefaultNets
    BY <1>5, ReadyIs
  <2>. QED
    BY <1>5, <2>1 DEF Ready
<1>. QED
  BY <1>1, <1>2, <1>3, <1>4, <1>5

(* A configuration is not a torn file.                                      *)
LEMMA ConfigNotTorn == Torn \notin Configs /\ Default \in Configs /\ Default # Torn
<1>1. Default \in Configs
  BY DEF Configs, Default
<1>2. Torn \notin Configs
  BY TornAssumption DEF Configs
<1>. QED
  BY <1>1, <1>2

(* The parts of Gathered.                                                   *)
LEMMA GatheredIs ==
  ASSUME NEW g, NEW j, NEW json, NEW interfaces, NEW nets,
         interfaces = g.interfaces, json \in Configs, json.will = g.json.will,
         Keeps(json.profiles, g.json.profiles, j - 1),
         nets \in Seq(Entries), Ranked(nets, json.profiles, Len(g.json.profiles) + 1 - j)
  PROVE  Gathered(g, j, json, interfaces, nets)
BY DEF Gathered

(* A setter of an operation that is ready finds a file it can load.         *)
LEMMA SetterHas ==
  ASSUME NEW g \in Goals, NEW op \in Seq(AllSteps), op # <<>>,
         NEW json, NEW wpa, NEW interfaces, NEW nets,
         Ready(g, op, json, wpa, interfaces, nets), Head(op).do \in {"will", "add"}
  PROVE  json \in Configs /\ json # Torn
<1>1. CASE Head(op).do = "will"
  BY <1>1, ReadyIs, ConfigNotTorn DEF ReadyWill
<1>2. CASE Head(op).do = "add"
  BY <1>2, ReadyIs, ConfigNotTorn DEF Gathered
<1>. QED
  BY <1>1, <1>2

(* A profile that is not known is no place, and skipping it leaves setJson  *)
(* ready.                                                                   *)
LEMMA SkipGoesOn ==
  ASSUME NEW g \in Goals, NEW op \in Seq(AllSteps), op # <<>>,
         NEW json, NEW wpa, NEW interfaces, NEW nets,
         Ready(g, op, json, wpa, interfaces, nets), Head(op).do = "add", Head(op).arg \in Unknown
  PROVE  Ready(g, Tail(op), json, wpa, interfaces, nets)
<1>. DEFINE all == g.json.profiles
            n == Len(all)
<1>1. PICK i \in 1 .. n : /\ Head(op) = Profile(g.json, i) /\ Tail(op) = Remaining(g.json, i + 1)
                          /\ Gathered(g, i, json, interfaces, nets)
  BY ReadyIs
<1>2. n \in Nat /\ i \in Nat /\ i + 1 \in 1 .. n + 1 /\ (i + 1) - 1 = i
  BY LenProperties DEF Goals, Requested
<1>3. all[i] \in Unknown
  BY <1>1, StepIs DEF Profile
<1>. HIDE DEF all
<1>4. Places(all, (i + 1) - 1) = Places(all, i - 1)
  <2>1. Places(all, i) = Places(all, i - 1)
    <3>1. ASSUME NEW j PROVE j \in Places(all, i) <=> j \in Places(all, i - 1)
      BY <1>2, <1>3 DEF Places
    <3>. QED
      BY <3>1
  <2>. QED
    BY <1>2, <2>1
<1>5. Keeps(json.profiles, all, (i + 1) - 1)
  BY <1>1, <1>4 DEF Gathered, Keeps, all
<1>6. Ranked(nets, json.profiles, n + 1 - (i + 1))
  <2>1. Ranked(nets, json.profiles, n + 1 - i) /\ nets \in Seq(Entries) /\ json.profiles \in Seq(Ssids)
    BY <1>1 DEF Gathered, all, Configs
  <2>2. ASSUME NEW k \in 1 .. Len(json.profiles) PROVE nets[k].priority > n + 1 - (i + 1)
    <3>1. nets[k].priority > n + 1 - i
      BY <2>1 DEF Ranked
    <3>2. nets[k].priority \in Nat
      <4>1. k \in 1 .. Len(nets)
        BY <2>1 DEF Ranked
      <4>2. nets[k] \in Entries
        BY <2>1, <4>1, ElementOfSeq
      <4>. QED
        BY <4>2 DEF Entries
    <3>. QED
      BY <1>2, <3>1, <3>2
  <2>. QED
    BY <2>1, <2>2 DEF Ranked
<1>7. Gathered(g, i + 1, json, interfaces, nets)
  <2>1. /\ interfaces = g.interfaces /\ json \in Configs /\ json.will = g.json.will
        /\ nets \in Seq(Entries)
    BY <1>1 DEF Gathered
  <2>2. Keeps(json.profiles, g.json.profiles, (i + 1) - 1)
    BY <1>5 DEF all
  <2>3. Ranked(nets, json.profiles, Len(g.json.profiles) + 1 - (i + 1))
    BY <1>6 DEF all
  <2>. QED
    BY <2>1, <2>2, <2>3, GatheredIs
<1>. QED
  BY <1>1, <1>2, <1>7, ReadyRemaining DEF all

(* A profile that is known is the next place.                               *)
LEMMA KeepsOneMore ==
  ASSUME NEW S, NEW kept \in Seq(S), NEW all, NEW i \in Nat \ {0}, all[i] \notin Unknown, all[i] \in S,
         Keeps(kept, all, i - 1)
  PROVE  Keeps(Append(kept, all[i]), all, i)
<1>. DEFINE m == Len(kept)
            more == Append(kept, all[i])
<1>1. /\ m \in Nat /\ more \in Seq(S) /\ Len(more) = m + 1
      /\ \A k \in 1 .. m : more[k] = kept[k]
      /\ more[m + 1] = all[i]
  BY AppendProperties, LenProperties
<1>. HIDE DEF more
<1>2. PICK f \in [1 .. m -> Places(all, i - 1)] :
        /\ \A j \in Places(all, i - 1) : \E k \in 1 .. m : f[k] = j
        /\ \A k, l \in 1 .. m : k < l => f[k] < f[l]
        /\ \A k \in 1 .. m : kept[k] = all[f[k]]
  BY DEF Keeps
<1>. HIDE DEF m
<1>3. ASSUME NEW j PROVE j \in Places(all, i) <=> j \in Places(all, i - 1) \/ j = i
  BY DEF Places
<1>4. ASSUME NEW j \in Places(all, i - 1) PROVE j \in Int /\ j < i
  BY DEF Places
<1>. DEFINE F == [k \in 1 .. m + 1 |-> IF k <= m THEN f[k] ELSE i]
<1>5. /\ \A k \in 1 .. m : F[k] = f[k] /\ f[k] \in Places(all, i - 1)
      /\ F[m + 1] = i
      /\ \A k \in 1 .. m + 1 : k \in 1 .. m \/ k = m + 1
  BY <1>1, <1>2
<1>6. F \in [1 .. m + 1 -> Places(all, i)]
  <2>1. \A k \in 1 .. m + 1 : F[k] \in Places(all, i)
    BY <1>3, <1>5
  <2>. QED
    BY <2>1
<1>. HIDE DEF F
<1>7. ASSUME NEW j \in Places(all, i) PROVE \E k \in 1 .. m + 1 : F[k] = j
  <2>1. CASE j \in Places(all, i - 1)
    <3>1. PICK k \in 1 .. m : f[k] = j
      BY <1>2, <2>1
    <3>2. k \in 1 .. m + 1 /\ F[k] = j
      BY <1>1, <1>5, <3>1
    <3>. QED
      BY <3>2
  <2>2. CASE j = i
    BY <1>1, <1>5, <2>2
  <2>. QED
    BY <1>3, <2>1, <2>2
<1>8. ASSUME NEW k \in 1 .. m + 1, NEW l \in 1 .. m + 1, k < l PROVE F[k] < F[l]
  <2>1. k \in 1 .. m
    BY <1>1, <1>8
  <2>2. CASE l \in 1 .. m
    BY <1>2, <1>5, <1>8, <2>1, <2>2
  <2>3. CASE l = m + 1
    BY <1>4, <1>5, <2>1, <2>3
  <2>. QED
    BY <1>5, <2>2, <2>3
<1>9. ASSUME NEW k \in 1 .. m + 1 PROVE more[k] = all[F[k]]
  BY <1>1, <1>2, <1>5
<1>. DEFINE len == Len(more)
<1>10. len = m + 1
  BY <1>1
<1>. HIDE DEF len
<1>11. /\ F \in [1 .. len -> Places(all, i)]
       /\ \A j \in Places(all, i) : \E k \in 1 .. len : F[k] = j
       /\ \A k, l \in 1 .. len : k < l => F[k] < F[l]
       /\ \A k \in 1 .. len : more[k] = all[F[k]]
  BY <1>6, <1>7, <1>8, <1>9, <1>10
<1>12. Keeps(more, all, i)
  BY <1>11, Zenon DEF Keeps, len
<1>. QED
  BY <1>12 DEF more

(* The network of the next profile ranks below those before it.             *)
LEMMA RankedOneMore ==
  ASSUME NEW nets \in Seq(Entries), NEW kept \in Seq(Ssids), NEW s \in Ssids, NEW r \in Nat \ {0},
         Ranked(nets, kept, r)
  PROVE  Ranked(Append(nets, [ssid |-> s, priority |-> r]), Append(kept, s), r - 1)
<1>. DEFINE e == [ssid |-> s, priority |-> r]
            m == Len(kept)
            moreNets == Append(nets, e)
            more == Append(kept, s)
<1>1. e \in Entries /\ e.ssid = s /\ e.priority = r
  BY DEF Entries
<1>2. /\ m \in Nat /\ more \in Seq(Ssids) /\ Len(more) = m + 1
      /\ \A k \in 1 .. m : more[k] = kept[k]
      /\ more[m + 1] = s
  BY AppendProperties, LenProperties
<1>. HIDE DEF e
<1>3. /\ Len(nets) = m /\ moreNets \in Seq(Entries) /\ Len(moreNets) = m + 1
      /\ \A k \in 1 .. m : moreNets[k] = nets[k]
      /\ moreNets[m + 1] = e
  <2>1. Len(nets) = m
    BY DEF Ranked
  <2>. QED
    BY <1>1, <2>1, AppendProperties
<1>4. \A k \in 1 .. m : nets[k].ssid = kept[k] /\ nets[k].priority > r /\ nets[k].priority \in Nat
  <2>1. \A k \in 1 .. m : nets[k] \in Entries
    BY <1>3, ElementOfSeq
  <2>. QED
    BY <2>1 DEF Ranked, Entries
<1>5. \A k \in 1 .. m - 1 : nets[k].priority > nets[k + 1].priority
  BY DEF Ranked
<1>. HIDE DEF m, moreNets, more
<1>6. ASSUME NEW k \in 1 .. m + 1 PROVE moreNets[k].ssid = more[k] /\ moreNets[k].priority > r - 1
  <2>1. CASE k \in 1 .. m
    BY <1>2, <1>3, <1>4, <2>1
  <2>2. CASE k = m + 1
    BY <1>1, <1>2, <1>3, <2>2
  <2>. QED
    BY <1>2, <2>1, <2>2
<1>7. ASSUME NEW k \in 1 .. m PROVE moreNets[k].priority > moreNets[k + 1].priority
  <2>1. CASE k + 1 \in 1 .. m
    <3>1. k \in 1 .. m - 1
      BY <1>2, <2>1
    <3>. QED
      BY <1>3, <1>5, <2>1, <3>1
  <2>2. CASE k = m
    BY <1>1, <1>3, <1>4, <2>2
  <2>. QED
    BY <1>2, <2>1, <2>2
<1>8. m + 1 - 1 = m
  BY <1>2
<1>9. Ranked(moreNets, more, r - 1)
  BY <1>2, <1>3, <1>6, <1>7, <1>8 DEF Ranked
<1>. QED
  BY <1>9 DEF moreNets, more, e

(* Adding a profile that is known leaves setJson ready.                     *)
LEMMA AddGoesOn ==
  ASSUME NEW g \in Goals, NEW op \in Seq(AllSteps), op # <<>>,
         NEW json, NEW wpa, NEW interfaces, NEW nets,
         Ready(g, op, json, wpa, interfaces, nets), Head(op).do = "add", Head(op).arg \notin Unknown
  PROVE  Ready(g, Tail(op), [json EXCEPT !.profiles = Append(@, Head(op).arg)], wpa, interfaces,
               Append(nets, [ssid |-> Head(op).arg, priority |-> Head(op).pri]))
<1>. DEFINE all == g.json.profiles
            n == Len(all)
<1>1. PICK i \in 1 .. n : /\ Head(op) = Profile(g.json, i) /\ Tail(op) = Remaining(g.json, i + 1)
                          /\ Gathered(g, i, json, interfaces, nets)
  BY ReadyIs
<1>2. n \in Nat /\ i \in Nat \ {0} /\ i + 1 \in 1 .. n + 1 /\ (i + 1) - 1 = i /\ n + 1 - i \in Nat \ {0}
      /\ n + 1 - (i + 1) = n + 1 - i - 1
  BY LenProperties DEF Goals, Requested
<1>3. Head(op).arg = all[i] /\ Head(op).pri = n + 1 - i /\ all[i] \notin Unknown
  BY <1>1, StepIs DEF Profile
<1>4. all[i] \in Ssids
  BY <1>3 DEF Goals, Requested
<1>. DEFINE more == Append(json.profiles, all[i])
            next == [json EXCEPT !.profiles = more]
            moreNets == Append(nets, [ssid |-> all[i], priority |-> n + 1 - i])
<1>5. /\ json \in Configs /\ json.profiles \in Seq(Ssids) /\ json.will = g.json.will
      /\ Keeps(json.profiles, all, i - 1) /\ nets \in Seq(Entries)
      /\ Ranked(nets, json.profiles, n + 1 - i) /\ interfaces = g.interfaces
  BY <1>1 DEF Gathered, Configs
<1>. HIDE DEF all, n
<1>6. Keeps(more, all, (i + 1) - 1)
  BY <1>2, <1>3, <1>4, <1>5, KeepsOneMore
<1>7. Ranked(moreNets, more, n + 1 - (i + 1))
  BY <1>2, <1>4, <1>5, RankedOneMore
<1>8. moreNets \in Seq(Entries) /\ more \in Seq(Ssids)
  <2>1. [ssid |-> all[i], priority |-> n + 1 - i] \in Entries
    BY <1>2, <1>4 DEF Entries
  <2>. QED
    BY <1>4, <1>5, <2>1, AppendProperties
<1>. HIDE DEF more, moreNets
<1>9. next \in Configs /\ next.will = g.json.will /\ next.profiles = more
  BY <1>5, <1>8 DEF Configs
<1>. HIDE DEF next
<1>10. Gathered(g, i + 1, next, interfaces, moreNets)
  <2>1. Keeps(next.profiles, g.json.profiles, (i + 1) - 1)
    BY <1>6, <1>9 DEF all
  <2>2. Ranked(moreNets, next.profiles, Len(g.json.profiles) + 1 - (i + 1))
    BY <1>7, <1>9 DEF all, n
  <2>. QED
    BY <1>5, <1>8, <1>9, <2>1, <2>2, GatheredIs
<1>11. Ready(g, Tail(op), next, wpa, interfaces, moreNets)
  BY <1>1, <1>2, <1>10, ReadyRemaining DEF all, n
<1>. QED
  BY <1>3, <1>11 DEF next, more, moreNets

(* Nothing is kept of no profiles.                                          *)
LEMMA KeepsNothing ==
  ASSUME NEW all PROVE Keeps(<<>>, all, 0)
<1>1. Places(all, 0) = {} /\ Len(<<>>) = 0 /\ 1 .. 0 = {}
  BY DEF Places
<1>. DEFINE f == [k \in 1 .. Len(<<>>) |-> k]
<1>2. f \in [1 .. Len(<<>>) -> Places(all, 0)]
  BY <1>1
<1>. QED
  BY <1>1, <1>2 DEF Keeps

(* All profiles of a loaded configuration are known.                        *)
LEMMA KnownSelf ==
  ASSUME NEW c \in Configs PROVE IsKnown(c.profiles, c.profiles)
<1>. DEFINE all == c.profiles
            n == Len(all)
            f == [k \in 1 .. n |-> k]
<1>1. all \in Seq(Ssids) /\ n \in Nat
  BY DEF Configs
<1>2. \A k \in 1 .. n : all[k] \notin Unknown
  BY <1>1, UnknownAssumption
<1>3. {j \in 1 .. n : all[j] \notin Unknown} = 1 .. n
  BY <1>2
<1>. HIDE DEF n
<1>4. f \in [1 .. n -> 1 .. n] /\ \A k \in 1 .. n : f[k] = k
  OBVIOUS
<1>. HIDE DEF f
<1>5. /\ f \in [1 .. n -> {j \in 1 .. n : all[j] \notin Unknown}]
      /\ \A j \in {j \in 1 .. n : all[j] \notin Unknown} : \E k \in 1 .. n : f[k] = j
      /\ \A k, m \in 1 .. n : k < m => f[k] < f[m]
      /\ \A k \in 1 .. n : all[k] = all[f[k]]
  BY <1>3, <1>4
<1>. QED
  BY <1>5 DEF IsKnown, n

(* What is kept of all profiles is what SerialExact asks for.               *)
LEMMA KnownIs ==
  ASSUME NEW kept, NEW all, Keeps(kept, all, Len(all)) PROVE IsKnown(kept, all)
BY DEF Keeps, IsKnown, Places

(* Networks that are ranked follow the profiles.                            *)
LEMMA RankedFollows ==
  ASSUME NEW nets \in Seq(Entries), NEW profiles \in Seq(Ssids), Ranked(nets, profiles, 0)
  PROVE  Follows([nets |-> nets, catchAll |-> TRUE], profiles)
<1>. DEFINE w == [nets |-> nets, catchAll |-> TRUE]
            n == Len(profiles)
<1>1. w \in WpaTexts /\ w.nets = nets /\ w.catchAll
  BY DEF WpaTexts
<1>. HIDE DEF w
<1>2. n \in Nat /\ Len(nets) = n
  BY DEF Ranked
<1>. HIDE DEF n
<1>3. w # Torn
  BY <1>1, TornAssumption DEF WpaTexts, Entries
<1>4. \A k \in 1 .. n : nets[k].ssid = profiles[k] /\ nets[k].priority > 0
  BY DEF Ranked, n
<1>5. \A k \in 1 .. n : k # n => nets[k].priority > nets[k + 1].priority
  <2>1. \A k \in 1 .. n - 1 : nets[k].priority > nets[k + 1].priority
    BY DEF Ranked, n
  <2>. QED
    BY <1>2, <2>1
<1>6. \A k \in 1 .. n :
        w.nets[k].priority > (IF k = n THEN 0 ELSE w.nets[k + 1].priority)
  BY <1>1, <1>4, <1>5
<1>7. Follows(w, profiles)
  BY <1>1, <1>2, <1>3, <1>4, <1>6 DEF Follows, n
<1>. QED
  BY <1>7 DEF w

-----------------------------------------------------------------------------
(* What each write leaves.                                                  *)

(* A revert, on the default file it leaves, leaves the operation ready.     *)
LEMMA RevertGoesOn ==
  ASSUME NEW g \in Goals, NEW op \in Seq(AllSteps), op # <<>>,
         NEW json, NEW wpa, NEW interfaces, NEW nets,
         Ready(g, op, json, wpa, interfaces, nets), Head(op).do = "revert"
  PROVE  Ready(g, Tail(op), Default, wpa, interfaces, nets)
<1>1. nets = <<>> /\ ReadyRevert(g, Tail(op), interfaces)
  BY ReadyIs
<1>2. CASE Tail(op) = SetRest(g.json) /\ Ahead(g, interfaces)
  BY <1>1, <1>2, ReadySet
<1>3. CASE Tail(op) = <<ApplyStep>> /\ g.json = Default /\ Ahead(g, interfaces)
  <2>1. Tail(op) # <<>> /\ Head(Tail(op)) = ApplyStep /\ Tail(Tail(op)) = <<>>
    BY <1>3, OneIs, StepsAre
  <2>2. ReadyApply(g, Tail(Tail(op)), Default, interfaces)
    BY <1>3, <2>1, ConfigNotTorn DEF ReadyApply
  <2>. QED
    BY <1>1, <2>1, <2>2 DEF Ready
<1>4. CASE Tail(op) = <<CopyWpa, CopyInterfaces>> /\ g = NoGoal
  <2>1. Tail(op) # <<>> /\ Head(Tail(op)) = CopyWpa /\ Tail(Tail(op)) = <<CopyInterfaces>>
    BY <1>4, ShortIs
  <2>. QED
    BY <1>1, <1>4, <2>1 DEF Ready
<1>. QED
  BY <1>1, <1>2, <1>3, <1>4 DEF ReadyRevert

(* The flag in the JSON file, with the interfaces file to follow.           *)
LEMMA WillGoesOn ==
  ASSUME NEW g \in Goals, NEW op \in Seq(AllSteps), op # <<>>,
         NEW json, NEW wpa, NEW interfaces, NEW nets,
         Ready(g, op, json, wpa, interfaces, nets), Head(op).do = "will"
  PROVE  Ready(g, <<Step("interfaces", Head(op).arg, 0)>> \o Tail(op),
               [json EXCEPT !.will = Head(op).arg], wpa, interfaces, nets)
<1>. DEFINE b == g.json.will
            rest == Tail(op)
            next == [json EXCEPT !.will = b]
            op2 == <<Interfaces(b)>> \o rest
<1>1. nets = <<>> /\ Head(op) = Will(b) /\ ReadyWill(g, rest, json, wpa, interfaces)
  BY ReadyIs
<1>2. Head(op).arg = b /\ b \in BOOLEAN
  <2>1. Head(op).arg = b
    BY <1>1, StepIs DEF Will
  <2>2. b \in BOOLEAN
    BY DEF Goals, Requested
  <2>. QED
    BY <2>1, <2>2
<1>3. op2 # <<>> /\ Head(op2) = Interfaces(b) /\ Tail(op2) = rest
  <2>1. rest \in Seq(AllSteps)
    BY HeadTailProperties
  <2>. HIDE DEF rest, b
  <2>. QED
    BY <1>2, <2>1, FirstIs, StepsAre
<1>. HIDE DEF rest, op2
<1>4. ReadyInterfaces(g, rest, next, wpa, interfaces)
  <2>1. CASE rest = Remaining(g.json, 1) /\ json = Default
    <3>1. next = [will |-> b, profiles |-> <<>>]
      BY <2>1 DEF Default
    <3>. QED
      BY <1>1, <2>1, <3>1 DEF ReadyInterfaces, ReadyWill
  <2>2. CASE /\ rest = <<>> /\ g.json \in Configs /\ json \in Configs
             /\ g.json = [json EXCEPT !.will = g.json.will] /\ Follows(wpa, json.profiles)
    <3>1. next = g.json /\ next.profiles = json.profiles
      BY <2>2 DEF Configs
    <3>. QED
      BY <1>1, <2>2, <3>1 DEF ReadyInterfaces, ReadyWill
  <2>. QED
    BY <1>1, <2>1, <2>2 DEF ReadyWill
<1>5. Ready(g, op2, next, wpa, interfaces, nets)
  BY <1>1, <1>3, <1>4 DEF Ready
<1>. QED
  BY <1>2, <1>5 DEF op2, rest, Interfaces

(* The flag in the interfaces file, or a torn file as it was.               *)
LEMMA InterfacesGoesOn ==
  ASSUME NEW g \in Goals, NEW op \in Seq(AllSteps), op # <<>>,
         NEW json, NEW wpa, NEW interfaces, NEW nets,
         Ready(g, op, json, wpa, interfaces, nets), Head(op).do = "interfaces"
  PROVE  Ready(g, Tail(op), json, wpa,
               IF interfaces = Torn THEN Torn ELSE [auto |-> Head(op).arg], nets)
<1>. DEFINE next == IF interfaces = Torn THEN Torn ELSE [auto |-> Head(op).arg]
<1>1. /\ nets = <<>> /\ Head(op) = Interfaces(g.json.will)
      /\ ReadyInterfaces(g, Tail(op), json, wpa, interfaces)
  BY ReadyIs
<1>2. next = g.interfaces
  <2>1. Head(op).arg = g.json.will
    BY <1>1, StepIs DEF Interfaces
  <2>. QED
    BY <1>1, <2>1 DEF ReadyInterfaces, Ahead
<1>. HIDE DEF next
<1>3. CASE Tail(op) = Remaining(g.json, 1) /\ json = [will |-> g.json.will, profiles |-> <<>>]
  <2>. DEFINE n == Len(g.json.profiles)
  <2>1. json \in Configs /\ json.will = g.json.will /\ json.profiles = <<>>
    BY <1>3 DEF Goals, Requested, Configs
  <2>2. n \in Nat /\ 1 \in 1 .. n + 1 /\ 1 - 1 = 0
    BY LenProperties DEF Goals, Requested
  <2>3. Keeps(json.profiles, g.json.profiles, 1 - 1)
    BY <2>1, <2>2, KeepsNothing
  <2>4. nets \in Seq(Entries) /\ Ranked(nets, json.profiles, Len(g.json.profiles) + 1 - 1)
    BY <1>1, <2>1 DEF Ranked
  <2>5. Gathered(g, 1, json, next, nets)
    BY <1>2, <2>1, <2>3, <2>4 DEF Gathered
  <2>. QED
    BY <1>3, <2>2, <2>5, ReadyRemaining DEF next
<1>4. CASE Tail(op) = <<>> /\ g.json \in Configs /\ json = g.json /\ Follows(wpa, json.profiles)
  <2>1. json # Torn /\ IsKnown(json.profiles, g.json.profiles)
    BY <1>4, ConfigNotTorn, KnownSelf
  <2>2. Exact(g, json, wpa, next)
    BY <1>2, <1>4, <2>1 DEF Exact
  <2>. QED
    BY <1>1, <1>4, <2>2 DEF Ready, next
<1>. QED
  BY <1>1, <1>3, <1>4 DEF ReadyInterfaces

(* At its end setJson has left the files as the goal says.                  *)
LEMMA WpaGoesOn ==
  ASSUME NEW g \in Goals, NEW op \in Seq(AllSteps), op # <<>>,
         NEW json, NEW wpa, NEW interfaces, NEW nets,
         Ready(g, op, json, wpa, interfaces, nets), Head(op).do = "wpa"
  PROVE  Ready(g, Tail(op), json, [nets |-> nets, catchAll |-> TRUE], interfaces, <<>>)
<1>. DEFINE n == Len(g.json.profiles)
<1>1. Tail(op) = <<>> /\ Gathered(g, n + 1, json, interfaces, nets)
  BY ReadyIs
<1>2. n \in Nat /\ (n + 1) - 1 = n /\ n + 1 - (n + 1) = 0
  BY LenProperties DEF Goals, Requested
<1>3. /\ json \in Configs /\ json # Torn /\ json.will = g.json.will /\ interfaces = g.interfaces
      /\ nets \in Seq(Entries) /\ json.profiles \in Seq(Ssids)
  BY <1>1, ConfigNotTorn DEF Gathered, Configs
<1>4. Keeps(json.profiles, g.json.profiles, (n + 1) - 1) /\ Ranked(nets, json.profiles, n + 1 - (n + 1))
  BY <1>1 DEF Gathered
<1>5. IsKnown(json.profiles, g.json.profiles)
  BY <1>2, <1>4, KnownIs
<1>6. Follows([nets |-> nets, catchAll |-> TRUE], json.profiles)
  BY <1>2, <1>3, <1>4, RankedFollows
<1>. QED
  BY <1>1, <1>3, <1>5, <1>6 DEF Ready, Exact

(* A join may write what it wants to wpa_supplicant.conf: the operation     *)
(* that follows writes it again.                                            *)
LEMMA JoinGoesOn ==
  ASSUME NEW g \in Goals, NEW op \in Seq(AllSteps), op # <<>>,
         NEW json, NEW wpa, NEW interfaces, NEW nets,
         Ready(g, op, json, wpa, interfaces, nets), Head(op).do = "join", NEW any
  PROVE  Ready(g, Tail(op), json, any, interfaces, nets)
<1>1. nets = <<>> /\ ReadyJoin(g, Tail(op), json, interfaces)
  BY ReadyIs
<1>2. /\ Tail(op) # <<>> /\ Head(Tail(op)) = Ctor /\ Tail(Tail(op)) = <<ApplyStep>>
  BY <1>1, ShortIs DEF ReadyJoin
<1>3. ReadyCtor(g, Tail(Tail(op)), json, any, interfaces)
  BY <1>1, <1>2 DEF ReadyJoin, ReadyCtor
<1>. QED
  BY <1>1, <1>2, <1>3 DEF Ready

(* revertToDefault copies the default wpa_supplicant.conf,                  *)
LEMMA CopyWpaGoesOn ==
  ASSUME NEW g \in Goals, NEW op \in Seq(AllSteps), op # <<>>,
         NEW json, NEW wpa, NEW interfaces, NEW nets,
         Ready(g, op, json, wpa, interfaces, nets), Head(op).do = "copyWpa"
  PROVE  Ready(g, Tail(op), json, DefaultNets, interfaces, nets)
<1>1. nets = <<>> /\ Tail(op) = <<CopyInterfaces>> /\ g = NoGoal /\ json = Default
  BY ReadyIs
<1>2. Tail(op) # <<>> /\ Head(Tail(op)) = CopyInterfaces /\ Tail(Tail(op)) = <<>>
  BY <1>1, OneIs, StepsAre
<1>. QED
  BY <1>1, <1>2 DEF Ready

(* The three defaults agree.                                                *)
LEMMA ResetIsExact == Exact(NoGoal, Default, DefaultNets, [auto |-> Default.will])
<1>1. IsKnown(Default.profiles, Default.profiles)
  BY ConfigNotTorn, KnownSelf
<1>2. Ranked(<<>>, <<>>, 0)
  BY DEF Ranked
<1>3. Follows(DefaultNets, Default.profiles)
  <2>1. <<>> \in Seq(Entries) /\ <<>> \in Seq(Ssids)
    OBVIOUS
  <2>2. Follows([nets |-> <<>>, catchAll |-> TRUE], <<>>)
    BY <1>2, <2>1, RankedFollows
  <2>. QED
    BY <2>2 DEF DefaultNets, Default
<1>. QED
  BY <1>1, <1>3, ConfigNotTorn DEF Exact, NoGoal

(* and the default interfaces file.                                         *)
LEMMA CopyInterfacesGoesOn ==
  ASSUME NEW g \in Goals, NEW op \in Seq(AllSteps), op # <<>>,
         NEW json, NEW wpa, NEW interfaces, NEW nets,
         Ready(g, op, json, wpa, interfaces, nets), Head(op).do = "copyInterfaces"
  PROVE  Ready(g, Tail(op), json, wpa, [auto |-> Default.will], nets)
<1>1. nets = <<>> /\ Tail(op) = <<>> /\ g = NoGoal /\ json = Default /\ wpa = DefaultNets
  BY ReadyIs
<1>. QED
  BY <1>1, ResetIsExact DEF Ready

-----------------------------------------------------------------------------
(* Networks belong to the operation that gathered them.                     *)

(* An operation that is going to write wpa_supplicant.conf at its end.      *)
EndsInWpa(op) == op # <<>> /\ op[Len(op)].do = "wpa"

(* Profiles are only added by an operation that writes them at its end, and *)
(* applyConfiguration comes last: so networks never outlive the operation   *)
(* that gathered them.                                                      *)
Paces(op) ==
  \A i \in 1 .. Len(op) : /\ op[i].do = "add" => EndsInWpa(op)
                          /\ op[i].do = "apply" => i = Len(op)

(* The networks a program has gathered belong to the operation it is at.    *)
Paired ==
  \A p \in Programs : Paces(todo[p]) /\ (networks[p] # <<>> => EndsInWpa(todo[p]))

(* A step done keeps the pace.                                              *)
LEMMA TailPaces ==
  ASSUME NEW op \in Seq(AllSteps), op # <<>>, Paces(op)
  PROVE  /\ Paces(Tail(op))
         /\ Head(op).do = "apply" => Tail(op) = <<>>
         /\ EndsInWpa(op) /\ Head(op).do # "wpa" => EndsInWpa(Tail(op))
         /\ Head(op).do = "add" => EndsInWpa(op)
<1>. DEFINE n == Len(op)
            rest == Tail(op)
            m == Len(rest)
<1>1. n \in Nat /\ n >= 1 /\ Head(op) = op[1]
  BY EmptySeq, LenProperties
<1>2. rest \in Seq(AllSteps) /\ m = n - 1 /\ \A i \in 1 .. m : rest[i] = op[i + 1]
  BY HeadTailProperties
<1>3. /\ \A i \in 1 .. n : /\ op[i].do = "add" => EndsInWpa(op)
                           /\ op[i].do = "apply" => i = n
  BY DEF Paces
<1>. HIDE DEF n, rest, m
<1>4. EndsInWpa(op) <=> op[n].do = "wpa"
  BY DEF EndsInWpa, n
<1>5. m # 0 => (EndsInWpa(rest) <=> op[n].do = "wpa")
  <2>1. ASSUME m # 0 PROVE rest # <<>> /\ rest[m] = op[n]
    <3>1. m \in 1 .. m /\ m + 1 = n
      BY <1>1, <1>2, <2>1
    <3>2. rest # <<>>
      BY <1>2, <2>1, EmptySeq DEF m
    <3>. QED
      BY <1>2, <3>1, <3>2
  <2>. QED
    BY <2>1 DEF EndsInWpa, m
<1>6. Paces(rest)
  <2>1. ASSUME NEW i \in 1 .. m
        PROVE  /\ rest[i].do = "add" => EndsInWpa(rest)
               /\ rest[i].do = "apply" => i = m
    <3>1. i + 1 \in 1 .. n /\ rest[i] = op[i + 1] /\ m # 0
      BY <1>1, <1>2
    <3>2. i + 1 = n => i = m
      BY <1>1, <1>2
    <3>. QED
      BY <1>3, <1>4, <1>5, <3>1, <3>2
  <2>. QED
    BY <2>1 DEF Paces, m
<1>7. 1 \in 1 .. n /\ (n = 1 => m = 0) /\ (m = 0 => n = 1)
  BY <1>1, <1>2
<1>8. Head(op).do = "apply" => rest = <<>>
  <2>1. Head(op).do = "apply" => m = 0
    BY <1>1, <1>3, <1>7
  <2>. QED
    BY <1>2, <2>1, EmptySeq DEF m
<1>9. EndsInWpa(op) /\ Head(op).do # "wpa" => EndsInWpa(rest)
  BY <1>1, <1>4, <1>5, <1>7
<1>10. Head(op).do = "add" => EndsInWpa(op)
  BY <1>1, <1>3, <1>7
<1>. QED
  BY <1>6, <1>8, <1>9, <1>10 DEF rest

(* So does a step put first.                                                *)
LEMMA FirstPaces ==
  ASSUME NEW step \in AllSteps, step.do \notin {"add", "apply"}, NEW rest \in Seq(AllSteps), Paces(rest)
  PROVE  /\ Paces(<<step>> \o rest)
         /\ EndsInWpa(rest) => EndsInWpa(<<step>> \o rest)
<1>. DEFINE op == <<step>> \o rest
            m == Len(rest)
            n == Len(op)
<1>1. <<step>> \in Seq(AllSteps) /\ Len(<<step>>) = 1 /\ <<step>>[1] = step
  OBVIOUS
<1>2. /\ op \in Seq(AllSteps) /\ n = 1 + m /\ m \in Nat
      /\ \A i \in 1 .. 1 + m : op[i] = IF i <= 1 THEN <<step>>[i] ELSE rest[i - 1]
  BY <1>1, ConcatProperties, LenProperties
<1>3. \A i \in 1 .. m : /\ rest[i].do = "add" => EndsInWpa(rest)
                        /\ rest[i].do = "apply" => i = m
  BY DEF Paces
<1>4. EndsInWpa(rest) => m # 0 /\ rest[m].do = "wpa"
  BY EmptySeq DEF EndsInWpa
<1>5. op # <<>>
  BY FirstIs
<1>. HIDE DEF op, m, n
<1>6. op[1] = step /\ \A i \in 1 .. n : i = 1 \/ (i - 1 \in 1 .. m /\ op[i] = rest[i - 1])
  BY <1>1, <1>2
<1>7. EndsInWpa(rest) => EndsInWpa(op)
  <2>1. ASSUME EndsInWpa(rest) PROVE op[n].do = "wpa"
    <3>1. n \in 1 .. n /\ n # 1 /\ n - 1 = m
      BY <1>2, <1>4, <2>1
    <3>. QED
      BY <1>4, <1>6, <2>1, <3>1
  <2>. QED
    BY <1>5, <2>1 DEF EndsInWpa, n
<1>8. ASSUME NEW i \in 1 .. n
      PROVE  /\ op[i].do = "add" => EndsInWpa(op)
             /\ op[i].do = "apply" => i = n
  <2>1. CASE i = 1
    BY <1>6, <2>1
  <2>2. CASE i - 1 \in 1 .. m /\ op[i] = rest[i - 1]
    <3>1. i - 1 = m => i = n
      BY <1>2
    <3>. QED
      BY <1>3, <1>7, <2>2, <3>1
  <2>. QED
    BY <1>6, <2>1, <2>2
<1>9. Paces(op)
  BY <1>8 DEF Paces, n
<1>. QED
  BY <1>7, <1>9 DEF op

(* No operation, and one of a single step.                                  *)
LEMMA NothingPaces == Paces(<<>>)
<1>1. Len(<<>>) = 0 /\ 1 .. 0 = {}
  OBVIOUS
<1>. QED
  BY <1>1 DEF Paces

(* An operation of one step that adds no profile.                           *)
LEMMA OnePaces == \A step \in AllSteps : step.do # "add" => Paces(<<step>>)
BY DEF Paces

(* setJson ends in wpa_supplicant.conf.                                     *)
LEMMA SetPaces ==
  ASSUME NEW c \in Requested
  PROVE  SetSteps(c) \in Seq(AllSteps) /\ Paces(SetSteps(c)) /\ EndsInWpa(SetSteps(c))
<1>. DEFINE n == Len(c.profiles)
            r == Remaining(c, 1)
<1>1. n \in Nat /\ r \in Seq(AllSteps) /\ r # <<>>
  BY RemainingIs, LenProperties DEF Requested
<1>2. /\ Len(r) = n + 1
      /\ \A k \in 1 .. n + 1 : r[k] = IF k <= n THEN Profile(c, 1 - 1 + k) ELSE Wpa
  <2>1. n + 2 - 1 = n + 1 /\ n + 1 - 1 = n
    BY <1>1
  <2>. QED
    BY <1>1, <2>1 DEF Remaining
<1>3. (\A k : Profile(c, k).do = "add") /\ Wpa.do = "wpa" /\ Revert.do = "revert" /\ Will(c.will).do = "will"
  BY StepIs DEF Profile, Wpa, Revert, Will
<1>4. Revert \in AllSteps /\ Will(c.will) \in AllSteps
  BY StepsAre DEF Requested
<1>. HIDE DEF r, n
<1>5. EndsInWpa(r)
  BY <1>1, <1>2, <1>3 DEF EndsInWpa
<1>6. Paces(r)
  <2>1. \A k \in 1 .. n + 1 : r[k].do # "apply"
    BY <1>2, <1>3
  <2>. QED
    BY <1>2, <1>5, <2>1 DEF Paces
<1>7. /\ <<Will(c.will)>> \o r \in Seq(AllSteps) /\ Paces(<<Will(c.will)>> \o r)
      /\ EndsInWpa(<<Will(c.will)>> \o r)
  BY <1>1, <1>3, <1>4, <1>5, <1>6, FirstIs, FirstPaces
<1>. DEFINE w == <<Will(c.will)>> \o r
<1>8. SetSteps(c) = <<Revert>> \o w
  BY SetIs DEF r
<1>. HIDE DEF w
<1>9. w \in Seq(AllSteps) /\ Paces(w) /\ EndsInWpa(w)
  BY <1>7 DEF w
<1>. QED
  BY <1>3, <1>4, <1>8, <1>9, FirstIs, FirstPaces

(* The other operations keep the pace.                                      *)
LEMMA ShortPaces ==
  /\ Paces(<<Ctor>>) /\ Paces(ApplySteps) /\ Paces(ResetSteps)
  /\ \A b \in BOOLEAN : Paces(<<Will(b)>>)
  /\ \A s \in Ssids : Paces(<<Step("join", s, 0)>> \o ApplySteps)
<1>1. /\ Ctor.do = "ctor" /\ Revert.do = "revert" /\ ApplyStep.do = "apply"
      /\ CopyWpa.do = "copyWpa" /\ CopyInterfaces.do = "copyInterfaces"
      /\ \A b : Will(b).do = "will"
      /\ \A s : Step("join", s, 0).do = "join"
  BY StepIs DEF Ctor, Revert, ApplyStep, CopyWpa, CopyInterfaces, Will
<1>2. Paces(<<Ctor>>) /\ \A b \in BOOLEAN : Paces(<<Will(b)>>)
  BY <1>1, OnePaces, StepsAre
<1>3. Paces(ApplySteps)
  BY <1>1 DEF ApplySteps, ApplyStep, Paces
<1>4. Paces(ResetSteps)
  BY <1>1 DEF ResetSteps, CopyWpa, CopyInterfaces, Paces
<1>5. \A s \in Ssids : Paces(<<Step("join", s, 0)>> \o ApplySteps)
  <2>1. \A s \in Ssids : Step("join", s, 0) \in AllSteps
    BY DEF Step, AllSteps
  <2>. QED
    BY <1>1, <1>3, <2>1, FirstPaces, ShortIs
<1>. QED
  BY <1>2, <1>3, <1>4, <1>5

(* The requests TLC draws from are requests.                                *)
LEMMA RequestsRequested == \A c \in Requests : c \in Requested
<1>. SUFFICES ASSUME NEW c \in Requests PROVE c \in Requested
  OBVIOUS
<1>1. c.profiles \in Lists(Ssids \union Unknown) /\ c.will \in BOOLEAN
      /\ c = [will |-> c.will, profiles |-> c.profiles]
  BY DEF Requests
<1>2. PICK n \in 0 .. MaxList : c.profiles \in [1 .. n -> Ssids \union Unknown]
  BY <1>1 DEF Lists
<1>3. c.profiles \in Seq(Ssids \union Unknown)
  BY <1>2, BoundsAssumption
<1>. QED
  BY <1>1, <1>3 DEF Requested

(* Only the operation and the networks of p change, and keep the pace.      *)
LEMMA PairedGoesOn ==
  ASSUME Inv, Paired, NEW p \in Programs,
         \A q \in Programs : q # p => todo'[q] = todo[q] /\ networks'[q] = networks[q],
         Paces(todo'[p]), networks'[p] # <<>> => EndsInWpa(todo'[p])
  PROVE  Paired'
<1>1. ASSUME NEW q \in Programs
      PROVE  Paces(todo'[q]) /\ (networks'[q] # <<>> => EndsInWpa(todo'[q]))
  BY DEF Paired
<1>. QED
  BY <1>1 DEF Paired, Paces, EndsInWpa

(* An operation begins with no networks left from another.                  *)
LEMMA PairedBegins ==
  ASSUME Inv, Paired, NEW p \in Users, NEW steps, Begins(p, steps), Paces(steps)
  PROVE  Paired'
<1>1. p \in Programs /\ todo[p] = <<>>
  BY DEF Programs, Begins, Busy
<1>2. todo'[p] = steps /\ \A q \in Programs : q # p => todo'[q] = todo[q]
  BY <1>1 DEF Begins, Inv, TypeOK
<1>3. networks' = networks /\ networks[p] = <<>>
  BY <1>1 DEF Begins, Paired, EndsInWpa
<1>. QED
  BY <1>1, <1>2, <1>3, PairedGoesOn

(* Every operation of a user keeps the pace.                                *)
LEMMA PairedUser ==
  ASSUME Inv, Paired, NEW p \in Users,
         \/ Get(p) \/ SetJson(p) \/ Apply(p) \/ JoinNetwork(p)
         \/ SetWillStartOnBootup(p) \/ RevertToDefault(p)
  PROVE  Paired'
<1>1. CASE Get(p)
  BY <1>1, ShortPaces, PairedBegins DEF Get
<1>2. CASE SetJson(p)
  <2>1. PICK c \in Requests : Begins(p, <<Ctor>> \o SetSteps(c))
    BY <1>2 DEF SetJson
  <2>2. c \in Requested
    BY RequestsRequested
  <2>3. Paces(<<Ctor>> \o SetSteps(c))
    <3>1. Ctor.do = "ctor"
      BY StepIs DEF Ctor
    <3>. QED
      BY <2>2, <3>1, SetPaces, FirstPaces, StepsAre
  <2>. QED
    BY <2>1, <2>3, PairedBegins
<1>3. CASE Apply(p)
  BY <1>3, ShortPaces, PairedBegins DEF Apply
<1>4. CASE JoinNetwork(p)
  <2>1. PICK s \in Ssids : Begins(p, <<Step("join", s, 0)>> \o ApplySteps)
    BY <1>4 DEF JoinNetwork
  <2>. QED
    BY <2>1, ShortPaces, PairedBegins
<1>5. CASE SetWillStartOnBootup(p)
  <2>1. PICK b \in BOOLEAN : Begins(p, <<Will(b)>>)
    BY <1>5 DEF SetWillStartOnBootup, Will
  <2>. QED
    BY <2>1, ShortPaces, PairedBegins
<1>6. CASE RevertToDefault(p)
  BY <1>6, ShortPaces, PairedBegins DEF RevertToDefault
<1>. QED
  BY <1>1, <1>2, <1>3, <1>4, <1>5, <1>6

(* What the pace says of a program at work.                                 *)
LEMMA PacesOf ==
  ASSUME Inv, Paired, NEW p \in Programs, Busy(p)
  PROVE  /\ todo[p] \in Seq(AllSteps) /\ todo[p] # <<>> /\ Tail(todo[p]) \in Seq(AllSteps)
         /\ Paces(todo[p]) /\ Paces(Tail(todo[p]))
         /\ Now(p).do = "apply" => Tail(todo[p]) = <<>> /\ networks[p] = <<>>
         /\ networks[p] # <<>> \/ Now(p).do = "add" => EndsInWpa(todo[p])
         /\ EndsInWpa(todo[p]) /\ Now(p).do # "wpa" => EndsInWpa(Tail(todo[p]))
<1>1. /\ todo[p] \in Seq(AllSteps) /\ todo[p] # <<>> /\ Paces(todo[p])
      /\ networks[p] # <<>> => EndsInWpa(todo[p])
  BY DEF Inv, TypeOK, Busy, Paired
<1>2. Tail(todo[p]) \in Seq(AllSteps)
  BY <1>1, HeadTailProperties
<1>. DEFINE op == todo[p]
<1>3. /\ Paces(Tail(op))
      /\ Head(op).do = "apply" => Tail(op) = <<>>
      /\ EndsInWpa(op) /\ Head(op).do # "wpa" => EndsInWpa(Tail(op))
      /\ Head(op).do = "add" => EndsInWpa(op)
  BY <1>1, TailPaces
<1>4. Head(op).do = "apply" => networks[p] = <<>>
  BY <1>1, <1>3 DEF EndsInWpa
<1>. QED
  BY <1>1, <1>2, <1>3, <1>4 DEF Now

(* A step that loads replaces itself by others.                             *)
LEMMA PairedLoads ==
  ASSUME Inv, Paired, NEW p \in Programs, Busy(p), Now(p).do # "wpa", NEW steps \in Seq(AllSteps),
         todo' = Rest(p, steps), networks' = networks,
         Paces(steps \o Tail(todo[p])),
         EndsInWpa(Tail(todo[p])) => EndsInWpa(steps \o Tail(todo[p]))
  PROVE  Paired'
<1>1. todo'[p] = steps \o Tail(todo[p]) /\ \A q \in Programs : q # p => todo'[q] = todo[q]
  BY RestType DEF Inv
<1>2. networks'[p] # <<>> => EndsInWpa(todo'[p])
  BY <1>1, PacesOf
<1>. QED
  BY <1>1, <1>2, PairedGoesOn

(* Nothing put before an operation.                                         *)
LEMMA NothingFirst ==
  ASSUME NEW s \in Seq(AllSteps) PROVE <<>> \o s = s /\ s \o <<>> = s /\ <<>> \in Seq(AllSteps)
BY ConcatEmptySeq

(* Every step of a program keeps the pace.                                  *)
LEMMA PairedSteps ==
  ASSUME Inv, Paired, NEW p \in Programs, Steps(p)
  PROVE  Paired'
<1>0. Busy(p)
  BY DEF Steps, CtorLoads, ApplyLoads, Skips, SetterLoads, Truncates, Writes, Doing
<1>. DEFINE rest == Tail(todo[p])
<1>1. CASE CtorLoads(p)
  <2>1. /\ Now(p).do = "ctor" /\ networks' = networks
        /\ todo' = Rest(p, IF file["json"] = Torn THEN <<Revert>> ELSE <<>>)
    BY <1>1 DEF CtorLoads, Doing
  <2>2. CASE file["json"] = Torn
    <3>1. Revert.do = "revert" /\ Revert \in AllSteps /\ <<Revert>> \in Seq(AllSteps)
      BY StepIs, StepsAre DEF Revert
    <3>2. /\ Paces(<<Revert>> \o rest)
          /\ EndsInWpa(rest) => EndsInWpa(<<Revert>> \o rest)
      BY <1>0, <3>1, PacesOf, FirstPaces
    <3>. QED
      BY <1>0, <2>1, <2>2, <3>1, <3>2, PairedLoads
  <2>3. CASE file["json"] # Torn
    BY <1>0, <2>1, <2>3, PacesOf, NothingFirst, PairedLoads
  <2>. QED
    BY <2>2, <2>3
<1>2. CASE ApplyLoads(p)
  <2>1. /\ Now(p).do = "apply" /\ networks' = networks
        /\ todo' = Rest(p, IF file["json"] = Torn THEN <<>> ELSE SetSteps(file["json"]))
    BY <1>2 DEF ApplyLoads, Doing
  <2>2. CASE file["json"] = Torn
    BY <1>0, <2>1, <2>2, PacesOf, NothingFirst, PairedLoads
  <2>3. CASE file["json"] # Torn
    <3>1. file["json"] \in Requested
      BY <2>3, ConfigsRequested DEF Inv, TypeOK, Requested
    <3>2. /\ SetSteps(file["json"]) \in Seq(AllSteps)
          /\ Paces(SetSteps(file["json"])) /\ EndsInWpa(SetSteps(file["json"]))
      BY <3>1, SetPaces
    <3>3. SetSteps(file["json"]) \o rest = SetSteps(file["json"])
      BY <1>0, <2>1, <3>2, PacesOf, NothingFirst
    <3>4. todo' = Rest(p, SetSteps(file["json"]))
      BY <2>1, <2>3
    <3>. QED
      BY <1>0, <2>1, <3>2, <3>3, <3>4, PairedLoads
  <2>. QED
    BY <2>2, <2>3
<1>3. CASE Skips(p) \/ (SetterLoads(p) /\ todo' = Rest(p, <<>>))
  <2>1. Now(p).do # "wpa" /\ networks' = networks /\ todo' = Rest(p, <<>>)
    BY <1>3 DEF Skips, SetterLoads, Doing
  <2>. QED
    BY <1>0, <2>1, PacesOf, NothingFirst, PairedLoads
<1>4. CASE (SetterLoads(p) /\ todo' = todo) \/ Truncates(p)
  <2>1. networks' = networks /\ todo' = todo
    BY <1>4 DEF SetterLoads, Truncates
  <2>. QED
    BY <2>1 DEF Paired
<1>5. CASE Writes(p)
  <2>. DEFINE s == Now(p)
              steps == IF s.do = "will" THEN <<Step("interfaces", s.arg, 0)>> ELSE <<>>
              next == CASE s.do = "add" -> Append(networks[p], [ssid |-> s.arg, priority |-> s.pri])
                        [] s.do = "wpa" -> <<>>
                        [] OTHER -> networks[p]
  <2>1. todo' = Rest(p, steps) /\ networks' = [networks EXCEPT ![p] = next]
    BY <1>5 DEF Writes
  <2>2. /\ steps \in Seq(AllSteps) /\ Paces(steps \o rest)
        /\ EndsInWpa(rest) => EndsInWpa(steps \o rest)
    <3>1. CASE s.do = "will"
      <4>1. s.arg \in BOOLEAN
        BY <1>0, <3>1, NowType DEF Inv, AllSteps
      <4>2. /\ Step("interfaces", s.arg, 0) \in AllSteps
            /\ Step("interfaces", s.arg, 0).do = "interfaces"
        BY <4>1, StepsAre, StepIs DEF Interfaces
      <4>3. <<Step("interfaces", s.arg, 0)>> \in Seq(AllSteps)
        BY <4>2
      <4>. QED
        BY <1>0, <3>1, <4>2, <4>3, PacesOf, FirstPaces
    <3>2. CASE s.do # "will"
      BY <1>0, <3>2, PacesOf, NothingFirst
    <3>. QED
      BY <3>1, <3>2
  <2>. HIDE DEF steps
  <2>3. todo'[p] = steps \o rest /\ \A q \in Programs : q # p => todo'[q] = todo[q]
    BY <1>0, <2>1, <2>2, RestType DEF Inv
  <2>4. next # <<>> => s.do # "wpa" /\ (s.do = "add" \/ networks[p] # <<>>)
    OBVIOUS
  <2>. HIDE DEF next
  <2>5. networks'[p] = next /\ \A q \in Programs : q # p => networks'[q] = networks[q]
    BY <2>1 DEF Inv, TypeOK
  <2>6. networks'[p] # <<>> => EndsInWpa(todo'[p])
    BY <1>0, <2>2, <2>3, <2>4, <2>5, PacesOf
  <2>. QED
    BY <2>2, <2>3, <2>5, <2>6, PairedGoesOn
<1>6. SetterLoads(p) => todo' = Rest(p, <<>>) \/ todo' = todo
  BY DEF SetterLoads
<1>. QED
  BY <1>1, <1>2, <1>3, <1>4, <1>5, <1>6 DEF Steps

(* Paired holds in every state.                                             *)
LEMMA PairedStep == Inv /\ Paired /\ [Next]_vars => Paired'
<1>. SUFFICES ASSUME Inv, Paired, [Next]_vars PROVE Paired'
  OBVIOUS
<1>1. CASE UNCHANGED vars
  BY <1>1 DEF Paired, vars
<1>2. CASE Crash
  <2>1. \A p \in Programs : networks'[p] = <<>> /\ todo'[p] = IF p = Boot THEN ApplySteps ELSE <<>>
    BY <1>2 DEF Crash
  <2>2. \A p \in Programs : Paces(todo'[p]) /\ networks'[p] = <<>>
    BY <2>1, ShortPaces, NothingPaces
  <2>. QED
    BY <2>2 DEF Paired, Paces, EndsInWpa
<1>. QED
  BY <1>1, <1>2, PairedUser, PairedSteps DEF Next

(* It holds at the start.                                                   *)
LEMMA PairedInit == Init => Paired
BY NothingPaces DEF Init, Paired

-----------------------------------------------------------------------------
(* The configuration in hand.                                               *)

(* What the files are for the operation of p: while it saves, what it has   *)
(* loaded stands for the file it has truncated.                             *)
Saves(p, what) == phase[p] # "load" /\ Now(p).do \in what
JsonOf(p) == IF Saves(p, {"will", "add"}) THEN root[p] ELSE file["json"]
InterfacesOf(p) == IF Saves(p, {"interfaces"}) THEN root[p] ELSE file["interfaces"]

(* No other program is at work.                                             *)
Alone(p) == \A q \in Programs : q # p => ~Busy(q)

(* The program p is alone, its operation is ready, and the file it has      *)
(* truncated is still empty.                                                *)
InHand(p) ==
  /\ Alone(p)
  /\ Ready(goal, todo[p], JsonOf(p), file["wpa"], InterfacesOf(p), networks[p])
  /\ phase[p] = "write" => file[FileOf(Now(p))] = Torn

(* While serial holds some program has the configuration in hand.           *)
SerialInv == serial => \E p \in Programs : InHand(p)

(* The ghost has its type.                                                  *)
LEMMA GoalIs == ASSUME TypeOK PROVE goal \in Goals
BY DEF TypeOK, Goals, Requested

(* An operation that begins with the constructor,                           *)
LEMMA CtorStarts ==
  ASSUME NEW g \in Goals, NEW rest \in Seq(AllSteps), NEW json, NEW wpa, NEW interfaces,
         ReadyCtor(g, rest, json, wpa, interfaces)
  PROVE  Ready(g, <<Ctor>> \o rest, json, wpa, interfaces, <<>>)
<1>1. /\ <<Ctor>> \o rest # <<>> /\ Head(<<Ctor>> \o rest) = Ctor
      /\ Tail(<<Ctor>> \o rest) = rest
  BY FirstIs, StepsAre
<1>. QED
  BY <1>1 DEF Ready

(* with the constructor alone, on files that are exact,                     *)
LEMMA GetStarts ==
  ASSUME NEW g \in Goals, NEW json, NEW wpa, NEW interfaces, Exact(g, json, wpa, interfaces)
  PROVE  Ready(g, <<Ctor>>, json, wpa, interfaces, <<>>)
<1>1. <<Ctor>> # <<>> /\ Head(<<Ctor>>) = Ctor /\ Tail(<<Ctor>>) = <<>>
  BY OneIs, StepsAre
<1>. QED
  BY <1>1 DEF Ready, ReadyCtor

(* with setJson,                                                            *)
LEMMA SetStarts ==
  ASSUME NEW g \in Goals,
         NEW json, NEW wpa, NEW interfaces, json # Torn, Ahead(g, interfaces)
  PROVE  Ready(g, <<Ctor>> \o SetSteps(g.json), json, wpa, interfaces, <<>>)
<1>1. ReadyCtor(g, SetSteps(g.json), json, wpa, interfaces)
  BY DEF ReadyCtor
<1>2. SetSteps(g.json) \in Seq(AllSteps)
  BY ReadySet
<1>. QED
  BY <1>1, <1>2, CtorStarts

(* with applyConfiguration, after a join or not,                            *)
LEMMA ApplyStarts ==
  ASSUME NEW g \in Goals, NEW json, NEW wpa, NEW interfaces,
         g.json = IF json = Torn THEN Default ELSE json, Ahead(g, interfaces)
  PROVE  /\ Ready(g, ApplySteps, json, wpa, interfaces, <<>>)
         /\ \A s \in Ssids : Ready(g, <<Step("join", s, 0)>> \o ApplySteps, json, wpa, interfaces, <<>>)
<1>1. ReadyCtor(g, <<ApplyStep>>, json, wpa, interfaces)
  BY DEF ReadyCtor
<1>2. Ready(g, ApplySteps, json, wpa, interfaces, <<>>)
  BY <1>1, ShortIs DEF Ready
<1>3. ASSUME NEW s \in Ssids
      PROVE  Ready(g, <<Step("join", s, 0)>> \o ApplySteps, json, wpa, interfaces, <<>>)
  <2>. DEFINE join == Step("join", s, 0)
              op == <<join>> \o ApplySteps
  <2>1. join \in AllSteps
    BY DEF Step, AllSteps
  <2>2. op # <<>> /\ Head(op) = join /\ Tail(op) = ApplySteps
    BY <2>1, ShortIs, FirstIs
  <2>3. ReadyJoin(g, ApplySteps, json, interfaces)
    BY DEF ReadyJoin
  <2>. HIDE DEF op
  <2>. QED
    BY <2>2, <2>3 DEF Ready, op
<1>. QED
  BY <1>2, <1>3

(* with the flag alone,                                                     *)
LEMMA WillStarts ==
  ASSUME NEW g \in Goals, NEW json \in Configs, NEW wpa, NEW interfaces, NEW b \in BOOLEAN,
         g.json = [json EXCEPT !.will = b], Ahead(g, interfaces), Follows(wpa, json.profiles)
  PROVE  Ready(g, <<Will(b)>>, json, wpa, interfaces, <<>>)
<1>1. g.json \in Configs /\ g.json.will = b
  BY DEF Configs
<1>2. <<Will(b)>> # <<>> /\ Head(<<Will(b)>>) = Will(b) /\ Tail(<<Will(b)>>) = <<>>
  BY OneIs, StepsAre
<1>3. ReadyWill(g, <<>>, json, wpa, interfaces)
  BY <1>1 DEF ReadyWill
<1>. QED
  BY <1>1, <1>2, <1>3 DEF Ready

(* with revertToDefault: each is ready.                                     *)
LEMMA ResetStarts ==
  ASSUME NEW json, NEW wpa, NEW interfaces, json # Torn
  PROVE  Ready(NoGoal, ResetSteps, json, wpa, interfaces, <<>>)
<1>1. ReadyCtor(NoGoal, Tail(ResetSteps), json, wpa, interfaces)
  BY ShortIs DEF ReadyCtor
<1>. QED
  BY <1>1, ShortIs DEF Ready

(* A program that is not saving leaves the files to say what they say.      *)
LEMMA AtRest ==
  ASSUME NEW p \in Programs, phase[p] = "load"
  PROVE  JsonOf(p) = file["json"] /\ InterfacesOf(p) = file["interfaces"]
BY DEF JsonOf, InterfacesOf, Saves

(* The same after a step.                                                   *)
LEMMA AtRestNext ==
  ASSUME NEW p \in Programs, phase'[p] = "load"
  PROVE  JsonOf(p)' = file'["json"] /\ InterfacesOf(p)' = file'["interfaces"]
BY DEF JsonOf, InterfacesOf, Saves

(* A program that is not at work has nothing in hand.                       *)
LEMMA IdleIs ==
  ASSUME Inv, Paired, NEW p \in Programs, ~Busy(p)
  PROVE  todo[p] = <<>> /\ phase[p] = "load" /\ networks[p] = <<>>
BY DEF Inv, TypeOK, LoadedInv, Paired, Busy, EndsInWpa

(* An operation with nothing left to do has left the files exact.           *)
LEMMA ReadyEmpty ==
  ASSUME NEW g \in Goals, NEW json, NEW wpa, NEW interfaces, NEW nets,
         Ready(g, <<>>, json, wpa, interfaces, nets)
  PROVE  Exact(g, json, wpa, interfaces)
<1>1. \A i \in 1 .. Len(g.json.profiles) + 1 : Remaining(g.json, i) # <<>>
  BY RemainingIs DEF Goals
<1>. QED
  BY <1>1 DEF Ready

(* SerialExact follows.                                                     *)
LEMMA QuietIsExact ==
  ASSUME Inv, Paired, SerialInv, Quiet, serial
  PROVE  Exact(goal, file["json"], file["wpa"], file["interfaces"])
<1>1. PICK p \in Programs : InHand(p)
  BY DEF SerialInv
<1>2. todo[p] = <<>> /\ phase[p] = "load" /\ networks[p] = <<>>
  BY IdleIs DEF Quiet
<1>3. Ready(goal, <<>>, file["json"], file["wpa"], file["interfaces"], <<>>)
  BY <1>1, <1>2, AtRest DEF InHand
<1>. QED
  BY <1>3, GoalIs, ReadyEmpty DEF Inv

(* An operation that begins on a quiet system, if it is ready, puts the     *)
(* configuration in its hand.                                               *)
LEMMA Begun ==
  ASSUME Inv, Paired, NEW p \in Users, NEW steps, Begins(p, steps),
         serial' => Quiet /\ Ready(goal', steps, file["json"], file["wpa"], file["interfaces"], <<>>)
  PROVE  SerialInv'
<1>. SUFFICES ASSUME serial' PROVE InHand(p)'
  BY DEF SerialInv, Programs
<1>1. p \in Programs /\ ~Busy(p)
  BY DEF Programs, Begins
<1>2. phase[p] = "load" /\ networks[p] = <<>>
  BY <1>1, IdleIs
<1>3. todo'[p] = steps /\ \A q \in Programs : q # p => todo'[q] = todo[q]
  BY <1>1 DEF Begins, Inv, TypeOK
<1>4. phase' = phase /\ networks' = networks /\ file' = file
  BY DEF Begins
<1>5. Alone(p)'
  BY <1>3 DEF Alone, Quiet, Busy
<1>6. JsonOf(p)' = file["json"] /\ InterfacesOf(p)' = file["interfaces"]
  BY <1>1, <1>2, <1>4, AtRestNext
<1>7. Ready(goal', todo'[p], JsonOf(p)', file'["wpa"], InterfacesOf(p)', networks'[p])
  BY <1>2, <1>3, <1>4, <1>6
<1>8. phase'[p] # "write"
  BY <1>2, <1>4
<1>. QED
  BY <1>5, <1>7, <1>8 DEF InHand

(* What the goal is when an operation begins.                               *)
LEMMA ExpectIs ==
  ASSUME Inv, serial', NEW c \in Requested, Expect(c)
  PROVE  goal' \in Goals /\ goal'.json = c /\ Ahead(goal', file["interfaces"])
<1>. DEFINE i == IF file["interfaces"] = Torn THEN Torn ELSE [auto |-> c.will]
<1>1. goal' = [json |-> c, interfaces |-> i]
  BY DEF Expect, Promise
<1>2. i \in InterfacesTexts \union {Torn}
  BY DEF Requested, InterfacesTexts
<1>3. goal' \in Goals /\ goal'.json = c /\ goal'.interfaces = i
  BY <1>1, <1>2 DEF Goals
<1>. QED
  BY <1>3 DEF Ahead

(* What a load yields.                                                      *)
LEMMA LoadedIs ==
  ASSUME Inv
  PROVE  /\ Loaded = IF file["json"] = Torn THEN Default ELSE file["json"]
         /\ Loaded \in Configs /\ Loaded \in Requested
         /\ file["json"] # Torn => file["json"] \in Configs
BY Defaults, ConfigsRequested DEF Inv, TypeOK, Loaded, Requested

(* Every operation of a user begins ready.                                  *)
LEMMA SerialUser ==
  ASSUME Inv, Paired, SerialInv, NEW p \in Users,
         \/ Get(p) \/ SetJson(p) \/ Apply(p) \/ JoinNetwork(p)
         \/ SetWillStartOnBootup(p) \/ RevertToDefault(p)
  PROVE  SerialInv'
<1>. DEFINE json == file["json"]
            wpa == file["wpa"]
            interfaces == file["interfaces"]
<1>0. Quiet => json # Torn
  BY QuietLoads DEF QuietJsonLoads
<1>1. CASE Get(p)
  <2>1. Begins(p, <<Ctor>>) /\ serial' = (serial /\ Quiet) /\ Promise(goal.json, goal.interfaces)
    BY <1>1 DEF Get
  <2>2. ASSUME serial' PROVE Quiet /\ Ready(goal', <<Ctor>>, json, wpa, interfaces, <<>>)
    <3>1. Quiet /\ serial
      BY <2>1, <2>2
    <3>2. Exact(goal, json, wpa, interfaces) /\ goal \in Goals
      BY <3>1, QuietIsExact, GoalIs DEF Inv
    <3>3. goal' = goal
      BY <2>1, <2>2, <3>2 DEF Promise, Goals
    <3>. QED
      BY <3>1, <3>2, <3>3, GetStarts
  <2>. QED
    BY <2>1, <2>2, Begun
<1>2. CASE SetJson(p)
  <2>1. PICK c \in Requests : Begins(p, <<Ctor>> \o SetSteps(c)) /\ serial' = Quiet /\ Expect(c)
    BY <1>2 DEF SetJson
  <2>2. ASSUME serial'
        PROVE  Quiet /\ Ready(goal', <<Ctor>> \o SetSteps(c), json, wpa, interfaces, <<>>)
    <3>1. goal' \in Goals /\ goal'.json = c /\ Ahead(goal', interfaces)
      BY <2>1, <2>2, RequestsRequested, ExpectIs
    <3>. QED
      BY <1>0, <2>1, <2>2, <3>1, SetStarts
  <2>. QED
    BY <2>1, <2>2, Begun
<1>3. CASE Apply(p)
  <2>1. Begins(p, ApplySteps) /\ serial' = Quiet /\ Expect(Loaded)
    BY <1>3 DEF Apply
  <2>2. ASSUME serial' PROVE Quiet /\ Ready(goal', ApplySteps, json, wpa, interfaces, <<>>)
    <3>1. goal' \in Goals /\ goal'.json = Loaded /\ Ahead(goal', interfaces)
      BY <2>1, <2>2, LoadedIs, ExpectIs
    <3>. QED
      BY <2>1, <2>2, <3>1, LoadedIs, ApplyStarts
  <2>. QED
    BY <2>1, <2>2, Begun
<1>4. CASE JoinNetwork(p)
  <2>1. PICK s \in Ssids : /\ Begins(p, <<Step("join", s, 0)>> \o ApplySteps)
                           /\ serial' = Quiet /\ Expect(Loaded)
    BY <1>4 DEF JoinNetwork
  <2>2. ASSUME serial'
        PROVE  Quiet /\ Ready(goal', <<Step("join", s, 0)>> \o ApplySteps, json, wpa, interfaces, <<>>)
    <3>1. goal' \in Goals /\ goal'.json = Loaded /\ Ahead(goal', interfaces)
      BY <2>1, <2>2, LoadedIs, ExpectIs
    <3>. QED
      BY <2>1, <2>2, <3>1, LoadedIs, ApplyStarts
  <2>. QED
    BY <2>1, <2>2, Begun
<1>5. CASE SetWillStartOnBootup(p)
  <2>1. PICK b \in BOOLEAN : /\ Begins(p, <<Will(b)>>) /\ serial' = (serial /\ Quiet)
                             /\ Expect([Loaded EXCEPT !.will = b])
    BY <1>5 DEF SetWillStartOnBootup, Will
  <2>2. ASSUME serial' PROVE Quiet /\ Ready(goal', <<Will(b)>>, json, wpa, interfaces, <<>>)
    <3>1. Quiet /\ serial
      BY <2>1, <2>2
    <3>2. Follows(wpa, json.profiles) /\ json \in Configs /\ Loaded = json
      BY <1>0, <3>1, QuietIsExact, LoadedIs DEF Exact
    <3>3. [Loaded EXCEPT !.will = b] \in Requested
      BY <3>2, LoadedIs DEF Requested
    <3>4. /\ goal' \in Goals /\ goal'.json = [Loaded EXCEPT !.will = b]
          /\ Ahead(goal', interfaces)
      BY <2>1, <2>2, <3>3, ExpectIs
    <3>. QED
      BY <3>1, <3>2, <3>4, WillStarts
  <2>. QED
    BY <2>1, <2>2, Begun
<1>6. CASE RevertToDefault(p)
  <2>1. Begins(p, ResetSteps) /\ serial' = Quiet /\ Promise(Default, [auto |-> Default.will])
    BY <1>6 DEF RevertToDefault
  <2>2. ASSUME serial' PROVE Quiet /\ Ready(goal', ResetSteps, json, wpa, interfaces, <<>>)
    <3>1. goal' = NoGoal
      BY <2>1, <2>2 DEF Promise, NoGoal
    <3>. QED
      BY <1>0, <2>1, <2>2, <3>1, ResetStarts
  <2>. QED
    BY <2>1, <2>2, Begun
<1>. QED
  BY <1>1, <1>2, <1>3, <1>4, <1>5, <1>6

(* After a loss of power the boot applies what is in the files.             *)
LEMMA SerialCrash == ASSUME Inv, Crash PROVE SerialInv'
<1>1. /\ todo' = [p \in Programs |-> IF p = Boot THEN ApplySteps ELSE <<>>]
      /\ phase' = [p \in Programs |-> "load"] /\ networks' = [p \in Programs |-> <<>>]
      /\ serial' = TRUE /\ Expect(Loaded) /\ file' = file
  BY DEF Crash
<1>2. Boot \in Programs
  BY DEF Programs
<1>3. /\ todo'[Boot] = ApplySteps /\ phase'[Boot] = "load" /\ networks'[Boot] = <<>>
      /\ \A q \in Programs : q # Boot => todo'[q] = <<>>
  BY <1>1, <1>2
<1>4. goal' \in Goals /\ goal'.json = Loaded /\ Ahead(goal', file["interfaces"])
  BY <1>1, LoadedIs, ExpectIs
<1>5. Ready(goal', ApplySteps, file["json"], file["wpa"], file["interfaces"], <<>>)
  BY <1>4, LoadedIs, ApplyStarts
<1>6. JsonOf(Boot)' = file["json"] /\ InterfacesOf(Boot)' = file["interfaces"]
  BY <1>1, <1>2, <1>3, AtRestNext
<1>7. Ready(goal', todo'[Boot], JsonOf(Boot)', file'["wpa"], InterfacesOf(Boot)', networks'[Boot])
  BY <1>1, <1>3, <1>5, <1>6
<1>8. Alone(Boot)'
  BY <1>3 DEF Alone, Busy
<1>9. InHand(Boot)'
  BY <1>3, <1>7, <1>8 DEF InHand
<1>. QED
  BY <1>2, <1>9 DEF SerialInv

(* At the start the files are the defaults.                                 *)
LEMMA SerialInit == Init => SerialInv
<1>. SUFFICES ASSUME Init PROVE InHand(Boot)
  BY DEF SerialInv, Programs
<1>1. Boot \in Programs
  BY DEF Programs
<1>2. /\ todo = [p \in Programs |-> <<>>] /\ phase = [p \in Programs |-> "load"]
      /\ networks = [p \in Programs |-> <<>>] /\ goal = NoGoal
      /\ file["json"] = Default /\ file["wpa"] = DefaultNets
      /\ file["interfaces"] = [auto |-> Default.will]
  BY DEF Init, Files
<1>3. todo[Boot] = <<>> /\ phase[Boot] = "load" /\ networks[Boot] = <<>>
  BY <1>1, <1>2
<1>4. JsonOf(Boot) = Default /\ InterfacesOf(Boot) = [auto |-> Default.will]
  BY <1>1, <1>2, <1>3, AtRest
<1>5. Ready(goal, todo[Boot], JsonOf(Boot), file["wpa"], InterfacesOf(Boot), networks[Boot])
  BY <1>2, <1>3, <1>4, ResetIsExact DEF Ready
<1>. QED
  BY <1>2, <1>3, <1>5 DEF InHand, Alone, Busy

-----------------------------------------------------------------------------
(* The steps of the program that is alone.                                  *)

(* While serial holds, the program that steps is the one that is alone.     *)
LEMMA StepperInHand ==
  ASSUME SerialInv, serial, NEW p \in Programs, Busy(p) PROVE InHand(p)
<1>1. PICK q \in Programs : InHand(q)
  BY DEF SerialInv
<1>2. q = p
  BY <1>1 DEF InHand, Alone
<1>. QED
  BY <1>1, <1>2

(* It stays so if its step leaves its operation ready.                      *)
LEMMA StaysInHand ==
  ASSUME SerialInv, NEW p \in Programs, Busy(p), UNCHANGED ghosts,
         \A q \in Programs : q # p => todo'[q] = todo[q],
         serial => /\ Ready(goal, todo'[p], JsonOf(p)', file'["wpa"], InterfacesOf(p)', networks'[p])
                   /\ phase'[p] = "write" => file'[FileOf(Head(todo'[p]))] = Torn
  PROVE  SerialInv'
<1>. SUFFICES ASSUME serial PROVE InHand(p)'
  BY DEF SerialInv, ghosts
<1>1. Alone(p)
  BY StepperInHand DEF InHand
<1>2. Alone(p)'
  BY <1>1 DEF Alone, Busy
<1>3. goal' = goal
  BY DEF ghosts
<1>. QED
  BY <1>2, <1>3 DEF InHand, Now

(* A step that loads and replaces itself by others.                         *)
LEMMA SerialLoads ==
  ASSUME Inv, SerialInv, NEW p \in Programs, Busy(p), phase[p] = "load",
         NEW steps \in Seq(AllSteps), todo' = Rest(p, steps),
         UNCHANGED <<file, networks, ghosts>>, phase'[p] = "load",
         Ready(goal, todo[p], file["json"], file["wpa"], file["interfaces"], networks[p])
           => Ready(goal, steps \o Tail(todo[p]), file["json"], file["wpa"], file["interfaces"],
                    networks[p])
  PROVE  SerialInv'
<1>1. todo'[p] = steps \o Tail(todo[p]) /\ \A q \in Programs : q # p => todo'[q] = todo[q]
  BY RestType DEF Inv
<1>2. JsonOf(p) = file["json"] /\ InterfacesOf(p) = file["interfaces"]
  BY AtRest
<1>3. JsonOf(p)' = file["json"] /\ InterfacesOf(p)' = file["interfaces"]
  BY AtRestNext
<1>4. ASSUME serial
      PROVE  Ready(goal, todo'[p], JsonOf(p)', file'["wpa"], InterfacesOf(p)', networks'[p])
  <2>1. Ready(goal, todo[p], file["json"], file["wpa"], file["interfaces"], networks[p])
    BY <1>2, <1>4, StepperInHand DEF InHand
  <2>. QED
    BY <1>1, <1>3, <2>1
<1>. QED
  BY <1>1, <1>4, StaysInHand

(* The operation of a program at work.                                      *)
LEMMA OpOf ==
  ASSUME Inv, NEW p \in Programs, Busy(p)
  PROVE  /\ todo[p] \in Seq(AllSteps) /\ todo[p] # <<>> /\ Head(todo[p]) = Now(p)
         /\ Tail(todo[p]) \in Seq(AllSteps) /\ <<>> \o Tail(todo[p]) = Tail(todo[p])
         /\ goal \in Goals
<1>1. todo[p] \in Seq(AllSteps) /\ todo[p] # <<>>
  BY DEF Inv, TypeOK, Busy
<1>2. Tail(todo[p]) \in Seq(AllSteps)
  BY <1>1, HeadTailProperties
<1>. QED
  BY <1>1, <1>2, NothingFirst, GoalIs DEF Now, Inv

(* The constructor.                                                         *)
LEMMA SerialCtor == ASSUME Inv, SerialInv, NEW p \in Programs, CtorLoads(p) PROVE SerialInv'
<1>1. /\ Busy(p) /\ Now(p).do = "ctor" /\ phase[p] = "load"
      /\ todo' = Rest(p, IF file["json"] = Torn THEN <<Revert>> ELSE <<>>)
      /\ UNCHANGED <<file, networks, ghosts>> /\ phase' = phase
  BY DEF CtorLoads, Doing
<1>2. CASE file["json"] = Torn
  <2>1. <<Revert>> \in Seq(AllSteps)
    BY StepsAre
  <2>2. Ready(goal, todo[p], file["json"], file["wpa"], file["interfaces"], networks[p])
          => Ready(goal, <<Revert>> \o Tail(todo[p]), file["json"], file["wpa"], file["interfaces"],
                   networks[p])
    BY <1>1, <1>2, OpOf, CtorGoesOn
  <2>. QED
    BY <1>1, <1>2, <2>1, <2>2, SerialLoads
<1>3. CASE file["json"] # Torn
  <2>1. Ready(goal, todo[p], file["json"], file["wpa"], file["interfaces"], networks[p])
          => Ready(goal, <<>> \o Tail(todo[p]), file["json"], file["wpa"], file["interfaces"],
                   networks[p])
    BY <1>1, <1>3, OpOf, CtorGoesOn
  <2>2. <<>> \in Seq(AllSteps) /\ todo' = Rest(p, <<>>)
    BY <1>1, <1>3
  <2>. QED
    BY <1>1, <2>1, <2>2, SerialLoads
<1>. QED
  BY <1>2, <1>3

(* applyConfiguration.                                                      *)
LEMMA SerialApply == ASSUME Inv, SerialInv, NEW p \in Programs, ApplyLoads(p) PROVE SerialInv'
<1>1. /\ Busy(p) /\ Now(p).do = "apply" /\ phase[p] = "load"
      /\ todo' = Rest(p, IF file["json"] = Torn THEN <<>> ELSE SetSteps(file["json"]))
      /\ UNCHANGED <<file, networks, ghosts>> /\ phase' = phase
  BY DEF ApplyLoads, Doing
<1>2. Ready(goal, todo[p], file["json"], file["wpa"], file["interfaces"], networks[p])
        => /\ file["json"] # Torn
           /\ Ready(goal, SetSteps(file["json"]) \o Tail(todo[p]), file["json"], file["wpa"],
                    file["interfaces"], networks[p])
  BY <1>1, OpOf, ApplyGoesOn
<1>3. CASE file["json"] = Torn
  <2>1. <<>> \in Seq(AllSteps)
    OBVIOUS
  <2>. QED
    BY <1>1, <1>2, <1>3, <2>1, SerialLoads
<1>4. CASE file["json"] # Torn
  <2>1. SetSteps(file["json"]) \in Seq(AllSteps)
    BY <1>4, LoadedIs, ConfigsRequested, SetPaces DEF Requested
  <2>2. todo' = Rest(p, SetSteps(file["json"]))
    BY <1>1, <1>4
  <2>. QED
    BY <1>1, <1>2, <2>1, <2>2, SerialLoads
<1>. QED
  BY <1>3, <1>4

(* A profile that is skipped.                                               *)
LEMMA SerialSkips == ASSUME Inv, SerialInv, NEW p \in Programs, Skips(p) PROVE SerialInv'
<1>1. /\ Busy(p) /\ Now(p).do = "add" /\ Now(p).arg \in Unknown /\ phase[p] = "load"
      /\ todo' = Rest(p, <<>>) /\ UNCHANGED <<file, networks, ghosts>> /\ phase' = phase
  BY DEF Skips, Doing
<1>2. Ready(goal, todo[p], file["json"], file["wpa"], file["interfaces"], networks[p])
        => Ready(goal, <<>> \o Tail(todo[p]), file["json"], file["wpa"], file["interfaces"],
                 networks[p])
  BY <1>1, OpOf, SkipGoesOn
<1>3. <<>> \in Seq(AllSteps)
  OBVIOUS
<1>. QED
  BY <1>1, <1>2, <1>3, SerialLoads

(* A setter finds the file that the operation depends on.                   *)
LEMMA SerialSetter == ASSUME Inv, SerialInv, NEW p \in Programs, SetterLoads(p) PROVE SerialInv'
<1>. DEFINE text == file[FileOf(Now(p))]
<1>1. /\ Busy(p) /\ Now(p).do \in {"will", "add", "interfaces"} /\ phase[p] = "load"
      /\ root' = [root EXCEPT ![p] = text] /\ UNCHANGED <<file, networks, ghosts>>
  BY DEF SetterLoads, Doing
<1>2. /\ Now(p).do \in {"will", "add"} => text = file["json"]
      /\ Now(p).do = "interfaces" => text = file["interfaces"]
  BY DEF FileOf
<1>. HIDE DEF text
<1>3. root'[p] = text
  BY <1>1 DEF Inv, TypeOK
<1>4. JsonOf(p) = file["json"] /\ InterfacesOf(p) = file["interfaces"]
  BY <1>1, AtRest
<1>5. CASE root'[p] = Torn /\ Now(p).do # "interfaces" /\ todo' = Rest(p, <<>>) /\ UNCHANGED phase
  <2>1. Ready(goal, todo[p], file["json"], file["wpa"], file["interfaces"], networks[p])
          => file["json"] # Torn
    BY <1>1, <1>5, OpOf, SetterHas
  <2>2. file["json"] = Torn
    BY <1>1, <1>2, <1>3, <1>5
  <2>3. <<>> \in Seq(AllSteps)
    OBVIOUS
  <2>. QED
    BY <1>1, <1>5, <2>1, <2>2, <2>3, SerialLoads
<1>6. CASE phase' = [phase EXCEPT ![p] = "save"] /\ UNCHANGED todo
  <2>1. phase'[p] = "save"
    BY <1>6 DEF Inv, TypeOK
  <2>2. Head(todo'[p]) = Now(p)
    BY <1>6 DEF Now
  <2>3. JsonOf(p)' = file["json"] /\ InterfacesOf(p)' = file["interfaces"]
    BY <1>1, <1>2, <1>3, <2>1, <2>2 DEF JsonOf, InterfacesOf, Saves, Now
  <2>4. ASSUME serial
        PROVE  Ready(goal, todo'[p], JsonOf(p)', file'["wpa"], InterfacesOf(p)', networks'[p])
    <3>1. Ready(goal, todo[p], file["json"], file["wpa"], file["interfaces"], networks[p])
      BY <1>1, <1>4, <2>4, StepperInHand DEF InHand
    <3>. QED
      BY <1>1, <1>6, <2>3, <3>1
  <2>. QED
    BY <1>1, <1>6, <2>1, <2>4, StaysInHand
<1>. QED
  BY <1>5, <1>6 DEF SetterLoads

(* Truncating a file: its text is in hand, or will not be needed.           *)
LEMMA SerialTruncates == ASSUME Inv, SerialInv, NEW p \in Programs, Truncates(p) PROVE SerialInv'
<1>. DEFINE f == FileOf(Now(p))
            do == Now(p).do
<1>1. /\ Busy(p) /\ UNCHANGED <<todo, root, networks, ghosts>>
      /\ file' = [file EXCEPT ![f] = Torn] /\ phase' = [phase EXCEPT ![p] = "write"]
      /\ \/ do \in {"will", "add", "interfaces"} /\ phase[p] = "save"
         \/ do \in {"revert", "wpa", "join", "copyWpa", "copyInterfaces"} /\ phase[p] = "load"
  BY DEF Truncates, Doing
<1>2. /\ do \in {"revert", "will", "add"} => f = "json"
      /\ do \in {"wpa", "join", "copyWpa"} => f = "wpa"
      /\ do \in {"interfaces", "copyInterfaces"} => f = "interfaces"
  BY DEF FileOf
<1>3. Head(todo'[p]) = Now(p) /\ Head(todo[p]) = Now(p)
  BY <1>1 DEF Now
<1>4. JsonOf(p)' = IF do \in {"will", "add"} THEN root[p] ELSE file'["json"]
  <2>1. phase'[p] = "write"
    BY <1>1 DEF Inv, TypeOK
  <2>. QED
    BY <1>1, <1>3, <2>1 DEF JsonOf, Saves, Now
<1>5. InterfacesOf(p)' = IF do = "interfaces" THEN root[p] ELSE file'["interfaces"]
  <2>1. phase'[p] = "write"
    BY <1>1 DEF Inv, TypeOK
  <2>. QED
    BY <1>1, <1>3, <2>1 DEF InterfacesOf, Saves, Now
<1>6. /\ JsonOf(p) = IF do \in {"will", "add"} THEN root[p] ELSE file["json"]
      /\ InterfacesOf(p) = IF do = "interfaces" THEN root[p] ELSE file["interfaces"]
  BY <1>1 DEF JsonOf, InterfacesOf, Saves
<1>. HIDE DEF f
<1>7. f \in Files /\ file'[f] = Torn /\ \A h \in Files : h # f => file'[h] = file[h]
  <2>1. f \in Files
    BY <1>1, <1>2 DEF Files
  <2>. QED
    BY <1>1, <2>1 DEF Inv, TypeOK
<1>8. "json" \in Files /\ "wpa" \in Files /\ "interfaces" \in Files
  BY DEF Files
<1>9. ASSUME serial
      PROVE  /\ Ready(goal, todo'[p], JsonOf(p)', file'["wpa"], InterfacesOf(p)', networks'[p])
             /\ file'[FileOf(Head(todo'[p]))] = Torn
  <2>. DEFINE op == todo[p]
              R(json, wpa, interfaces) == Ready(goal, op, json, wpa, interfaces, networks[p])
  <2>1. R(JsonOf(p), file["wpa"], InterfacesOf(p))
    BY <1>1, <1>9, StepperInHand DEF InHand
  <2>2. op \in Seq(AllSteps) /\ op # <<>> /\ Head(op) = Now(p) /\ goal \in Goals
    BY <1>1, OpOf
  <2>3. /\ do = "revert" => R(Torn, file["wpa"], InterfacesOf(p))
        /\ do \in {"wpa", "join", "copyWpa"} => R(JsonOf(p), Torn, InterfacesOf(p))
        /\ do = "copyInterfaces" => R(JsonOf(p), file["wpa"], Torn)
    BY <2>1, <2>2, OverwritesAny
  <2>4. todo'[p] = op /\ networks'[p] = networks[p]
    BY <1>1
  <2>. HIDE DEF R, do
  <2>5. R(JsonOf(p)', file'["wpa"], InterfacesOf(p)')
    <3>1. CASE do \in {"will", "add"}
      BY <1>2, <1>4, <1>5, <1>6, <1>7, <1>8, <2>1, <3>1
    <3>2. CASE do = "revert"
      BY <1>2, <1>4, <1>5, <1>6, <1>7, <1>8, <2>3, <3>2
    <3>3. CASE do \in {"wpa", "join", "copyWpa"}
      BY <1>2, <1>4, <1>5, <1>6, <1>7, <1>8, <2>3, <3>3
    <3>4. CASE do = "interfaces"
      BY <1>2, <1>4, <1>5, <1>6, <1>7, <1>8, <2>1, <3>4
    <3>5. CASE do = "copyInterfaces"
      BY <1>2, <1>4, <1>5, <1>6, <1>7, <1>8, <2>3, <3>5
    <3>. QED
      BY <1>1, <3>1, <3>2, <3>3, <3>4, <3>5
  <2>6. file'[FileOf(Head(todo'[p]))] = Torn
    BY <1>3, <1>7 DEF f
  <2>. QED
    BY <2>4, <2>5, <2>6 DEF R
<1>. QED
  BY <1>1, <1>9, StaysInHand

(* What a save writes when its program is alone.                            *)
LEMMA SerialWrites == ASSUME Inv, SerialInv, NEW p \in Programs, Writes(p) PROVE SerialInv'
<1>. DEFINE f == FileOf(Now(p))
            s == Now(p)
            steps == IF s.do = "will" THEN <<Step("interfaces", s.arg, 0)>> ELSE <<>>
            next == CASE s.do = "add" -> Append(networks[p], [ssid |-> s.arg, priority |-> s.pri])
                      [] s.do = "wpa" -> <<>>
                      [] OTHER -> networks[p]
            R(op, json, wpa, interfaces, nets) == Ready(goal, op, json, wpa, interfaces, nets)
<1>1. /\ Busy(p) /\ phase[p] = "write" /\ UNCHANGED ghosts
      /\ todo' = Rest(p, steps) /\ phase' = [phase EXCEPT ![p] = "load"]
      /\ networks' = [networks EXCEPT ![p] = next]
  BY DEF Writes
<1>2. file[f] = Torn => file' = [file EXCEPT ![f] = Text(p)]
  BY DEF Writes
<1>3. /\ s.do \in {"revert", "will", "add"} => f = "json"
      /\ s.do \in {"wpa", "join", "copyWpa"} => f = "wpa"
      /\ s.do \in {"interfaces", "copyInterfaces"} => f = "interfaces"
      /\ s.do \in {"revert", "will", "add", "wpa", "join", "copyWpa", "interfaces",
                   "copyInterfaces"}
  <2>1. s \in AllSteps /\ s.do \notin {"ctor", "apply"}
    BY <1>1, NowType DEF Inv, LoadedInv
  <2>2. s.do \in {"revert", "will", "add", "wpa", "join", "copyWpa", "interfaces",
                  "copyInterfaces"}
    BY <2>1 DEF AllSteps
  <2>. HIDE DEF s
  <2>. QED
    BY <2>2 DEF FileOf, s
<1>4. f \in Files /\ "json" \in Files /\ "wpa" \in Files /\ "interfaces" \in Files
  BY <1>3 DEF Files
<1>5. phase'[p] = "load" /\ networks'[p] = next
  BY <1>1 DEF Inv, TypeOK
<1>6. steps \in Seq(AllSteps)
  <2>1. CASE s.do = "will"
    <3>1. s.arg \in BOOLEAN
      BY <1>1, <2>1, NowType DEF Inv, AllSteps
    <3>. QED
      BY <2>1, <3>1, StepsAre DEF Interfaces
  <2>2. CASE s.do # "will"
    BY <2>2
  <2>. QED
    BY <2>1, <2>2
<1>7. todo'[p] = steps \o Tail(todo[p]) /\ \A q \in Programs : q # p => todo'[q] = todo[q]
  BY <1>1, <1>6, RestType DEF Inv
<1>8. JsonOf(p)' = file'["json"] /\ InterfacesOf(p)' = file'["interfaces"]
  BY <1>5, AtRestNext
<1>9. /\ JsonOf(p) = IF s.do \in {"will", "add"} THEN root[p] ELSE file["json"]
      /\ InterfacesOf(p) = IF s.do = "interfaces" THEN root[p] ELSE file["interfaces"]
  BY <1>1 DEF JsonOf, InterfacesOf, Saves
<1>10. ASSUME serial
       PROVE  R(todo'[p], file'["json"], file'["wpa"], file'["interfaces"], networks'[p])
  <2>. DEFINE op == todo[p]
              rest == Tail(op)
              json == JsonOf(p)
              wpa == file["wpa"]
              interfaces == InterfacesOf(p)
              nets == networks[p]
  <2>1. R(op, json, wpa, interfaces, nets) /\ file[f] = Torn
    BY <1>1, <1>10, StepperInHand DEF InHand
  <2>2. op \in Seq(AllSteps) /\ op # <<>> /\ Head(op) = s /\ goal \in Goals /\ <<>> \o rest = rest
    BY <1>1, OpOf
  <2>3. file'[f] = Text(p) /\ \A h \in Files : h # f => file'[h] = file[h]
    BY <1>2, <1>4, <2>1 DEF Inv, TypeOK
  <2>. HIDE DEF f, R, op, rest
  <2>4. CASE s.do = "revert"
    <3>1. R(rest, Default, wpa, interfaces, nets)
      BY <2>1, <2>2, <2>4, RevertGoesOn DEF R, rest
    <3>2. Text(p) = Default
      BY <2>4 DEF Text
    <3>3. todo'[p] = rest /\ networks'[p] = nets
      BY <1>5, <1>7, <2>2, <2>4 DEF rest, op
    <3>. QED
      BY <1>3, <1>4, <1>9, <2>3, <2>4, <3>1, <3>2, <3>3
  <2>5. CASE s.do = "will"
    <3>1. R(<<Step("interfaces", s.arg, 0)>> \o rest, [json EXCEPT !.will = s.arg], wpa, interfaces, nets)
      BY <2>1, <2>2, <2>5, WillGoesOn DEF R, rest
    <3>2. Text(p) = [json EXCEPT !.will = s.arg]
      BY <1>9, <2>5 DEF Text
    <3>3. todo'[p] = <<Step("interfaces", s.arg, 0)>> \o rest /\ networks'[p] = nets
      BY <1>5, <1>7, <2>5 DEF rest, op
    <3>. QED
      BY <1>3, <1>4, <1>9, <2>3, <2>5, <3>1, <3>2, <3>3
  <2>6. CASE s.do = "add"
    <3>. DEFINE more == [json EXCEPT !.profiles = Append(@, s.arg)]
                moreNets == Append(nets, [ssid |-> s.arg, priority |-> s.pri])
    <3>1. R(rest, more, wpa, interfaces, moreNets)
      <4>1. s.arg \notin Unknown
        BY <1>1, <2>6 DEF Inv, LoadedInv
      <4>. QED
        BY <2>1, <2>2, <2>6, <4>1, AddGoesOn DEF R, rest
    <3>2. Text(p) = more
      BY <1>9, <2>6 DEF Text
    <3>3. todo'[p] = rest /\ networks'[p] = moreNets
      BY <1>5, <1>7, <2>2, <2>6 DEF rest, op
    <3>. HIDE DEF more, moreNets
    <3>. QED
      BY <1>3, <1>4, <1>9, <2>3, <2>6, <3>1, <3>2, <3>3
  <2>7. CASE s.do = "interfaces"
    <3>1. R(rest, json, wpa, IF interfaces = Torn THEN Torn ELSE [auto |-> s.arg], nets)
      BY <2>1, <2>2, <2>7, InterfacesGoesOn DEF R, rest
    <3>2. Text(p) = IF interfaces = Torn THEN Torn ELSE [auto |-> s.arg]
      BY <1>9, <2>7 DEF Text
    <3>3. todo'[p] = rest /\ networks'[p] = nets
      BY <1>5, <1>7, <2>2, <2>7 DEF rest, op
    <3>. QED
      BY <1>3, <1>4, <1>9, <2>3, <2>7, <3>1, <3>2, <3>3
  <2>8. CASE s.do = "wpa"
    <3>1. R(rest, json, [nets |-> nets, catchAll |-> TRUE], interfaces, <<>>)
      BY <2>1, <2>2, <2>8, WpaGoesOn DEF R, rest
    <3>2. Text(p) = [nets |-> nets, catchAll |-> TRUE]
      BY <2>8 DEF Text
    <3>3. todo'[p] = rest /\ networks'[p] = <<>>
      BY <1>5, <1>7, <2>2, <2>8 DEF rest, op
    <3>. QED
      BY <1>3, <1>4, <1>9, <2>3, <2>8, <3>1, <3>2, <3>3
  <2>9. CASE s.do = "join"
    <3>1. R(rest, json, Text(p), interfaces, nets)
      BY <2>1, <2>2, <2>9, JoinGoesOn DEF R, rest
    <3>2. todo'[p] = rest /\ networks'[p] = nets
      BY <1>5, <1>7, <2>2, <2>9 DEF rest, op
    <3>. QED
      BY <1>3, <1>4, <1>9, <2>3, <2>9, <3>1, <3>2
  <2>10. CASE s.do = "copyWpa"
    <3>1. R(rest, json, DefaultNets, interfaces, nets)
      BY <2>1, <2>2, <2>10, CopyWpaGoesOn DEF R, rest
    <3>2. Text(p) = DefaultNets
      BY <2>10 DEF Text
    <3>3. todo'[p] = rest /\ networks'[p] = nets
      BY <1>5, <1>7, <2>2, <2>10 DEF rest, op
    <3>. QED
      BY <1>3, <1>4, <1>9, <2>3, <2>10, <3>1, <3>2, <3>3
  <2>11. CASE s.do = "copyInterfaces"
    <3>1. R(rest, json, wpa, [auto |-> Default.will], nets)
      BY <2>1, <2>2, <2>11, CopyInterfacesGoesOn DEF R, rest
    <3>2. Text(p) = [auto |-> Default.will]
      BY <2>11 DEF Text
    <3>3. todo'[p] = rest /\ networks'[p] = nets
      BY <1>5, <1>7, <2>2, <2>11 DEF rest, op
    <3>. QED
      BY <1>3, <1>4, <1>9, <2>3, <2>11, <3>1, <3>2, <3>3
  <2>. QED
    BY <1>3, <2>4, <2>5, <2>6, <2>7, <2>8, <2>9, <2>10, <2>11
<1>11. serial => Ready(goal, todo'[p], JsonOf(p)', file'["wpa"], InterfacesOf(p)', networks'[p])
  BY <1>8, <1>10
<1>. QED
  BY <1>1, <1>5, <1>7, <1>11, StaysInHand

(* The inductive invariant.                                                 *)
SerialStrong == Inv /\ Paired /\ SerialInv

(* Every step preserves it.                                                 *)
LEMMA SerialStep == SerialStrong /\ [Next]_vars => SerialStrong'
<1>. SUFFICES ASSUME Inv, Paired, SerialInv, [Next]_vars PROVE SerialInv'
  BY StepInv, PairedStep DEF SerialStrong
<1>1. CASE UNCHANGED vars
  BY <1>1 DEF SerialInv, InHand, Alone, Busy, JsonOf, InterfacesOf, Saves, Now, vars
<1>2. ASSUME NEW p \in Programs, Steps(p) PROVE SerialInv'
  BY <1>2, SerialCtor, SerialApply, SerialSkips, SerialSetter, SerialTruncates, SerialWrites
     DEF Steps
<1>. QED
  BY <1>1, <1>2, SerialUser, SerialCrash DEF Next

(* From any files that a crash may have left, an operation that nothing     *)
(* overlaps and nothing cuts off leaves the three files as it says: the     *)
(* JSON file with exactly the settings and the known profiles asked for,    *)
(* wpa_supplicant.conf with their networks in order of preference, and the  *)
(* interfaces file with the flag, unless it was torn.                       *)
THEOREM OperationsAreExact == Spec => []SerialExact
<1>1. Init => SerialStrong
  BY InitInv, PairedInit, SerialInit DEF SerialStrong
<1>2. SerialStrong => SerialExact
  BY QuietIsExact DEF SerialStrong, SerialExact
<1>. QED
  BY <1>1, <1>2, SerialStep, PTL DEF Spec
=============================================================================
