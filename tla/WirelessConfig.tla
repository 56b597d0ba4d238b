--------------------------- MODULE WirelessConfig ---------------------------
(***************************************************************************)
(* The wireless configuration of TerkOS and the system files that follow   *)
(* it (libConfigurationManagement): the JSON file of                       *)
(* WirelessNetworkingConfigManager, on top of ConfigFile, and the files    *)
(* wpa_supplicant.conf and /etc/network/interfaces.  The programs that use *)
(* them, which are the web server's tools, the LCD menu and the tool that  *)
(* runs at boot, share nothing but the files, and no file is ever locked:  *)
(* an operation is a sequence of loads and saves, and a save truncates the *)
(* file before it writes it.                                               *)
(*                                                                         *)
(* The other managers (audio, LCD, user programs) are the same operations  *)
(* with fewer settings.  The defaults of the three files are read-only,    *)
(* and taken to agree with each other.                                     *)
(***************************************************************************)
EXTENDS Naturals, Sequences

CONSTANTS Users,      \* programs run by a user: web tools, threads of the menu
          Boot,       \* the tool that initializeTerkOS.pl runs at boot
          Ssids,      \* the network profiles a user may ask for
          Unknown,    \* profiles whose encryption type setJson does not know
          Torn,       \* a file without usable content: empty, or cut short
          MaxList,    \* bound: profiles in a request
          MaxOps,     \* bound: operations begun by users
          MaxCrashes  \* bound: losses of power

ASSUME ProgramsAssumption == Boot \notin Users
ASSUME UnknownAssumption == Unknown \intersect (Ssids \union BOOLEAN) = {}
ASSUME TornAssumption ==
  /\ Torn \notin [will : BOOLEAN, profiles : Seq(Ssids)]
  /\ Torn \notin [nets : Seq([ssid : Ssids, priority : Nat]), catchAll : BOOLEAN]
ASSUME BoundsAssumption == MaxList \in Nat /\ MaxOps \in Nat /\ MaxCrashes \in Nat

Programs == Users \union {Boot}
Files == {"json", "wpa", "interfaces"}

VARIABLES file,     \* the content of each file
          todo,     \* the steps that remain of each program's operation
          phase,    \* how far the first of them has come: load, save or write
          root,     \* what the program last loaded
          networks, \* the networks of the program's WpaSupplicantConf
          ops, crashes,
          serial,   \* ghost: since the configuration was last set, read back
                    \* or reset as a whole nothing overlapped or was cut off
          goal      \* ghost: what the files should then say

vars == <<file, todo, phase, root, networks, ops, crashes, serial, goal>>
ghosts == <<serial, goal>>

-----------------------------------------------------------------------------
(* Contents.                                                               *)

Lists(P) == UNION {[1 .. n -> P] : n \in 0 .. MaxList}
Requests == [will : BOOLEAN, profiles : Lists(Ssids \union Unknown)]
Configs == [will : BOOLEAN, profiles : Seq(Ssids)]
Default == [will |-> TRUE, profiles |-> <<>>]
NoGoal == [json |-> Default, interfaces |-> [auto |-> Default.will]]
DefaultNets == [nets |-> <<>>, catchAll |-> TRUE]

(* The steps an operation is made of.  "arg" is the setting or the profile *)
(* of the step and "pri" the priority setJson gives to a profile.          *)
Step(do, arg, pri) == [do |-> do, arg |-> arg, pri |-> pri]
Ctor == Step("ctor", 0, 0)
Revert == Step("revert", 0, 0)

FileOf(step) == CASE step.do \in {"revert", "will", "add"} -> "json"
                  [] step.do \in {"wpa", "join", "copyWpa"} -> "wpa"
                  [] step.do \in {"interfaces", "copyInterfaces"} -> "interfaces"

(* Faults for SetSteps: the file is not reverted first; the priority is    *)
(* counted down before it is used, so that the last profile's is that of   *)
(* the network that matches anything (WpaSupplicantConf.cpp:73).           *)
KeepingSetSteps(c) ==
  LET n == Len(c.profiles)
  IN <<Step("will", c.will, 0)>>
       \o [i \in 1 .. n |-> Step("add", c.profiles[i], n + 1 - i)]
       \o <<Step("wpa", 0, 0)>>
EarlySetSteps(c) ==
  LET n == Len(c.profiles)
  IN <<Revert, Step("will", c.will, 0)>>
       \o [i \in 1 .. n |-> Step("add", c.profiles[i], n - i)]
       \o <<Step("wpa", 0, 0)>>

(* setJson(): revert the JSON file, then one load and save for each        *)
(* setting, and wpa_supplicant.conf at the end.                            *)
SetSteps(c) ==
  LET n == Len(c.profiles)
  IN <<Revert, Step("will", c.will, 0)>>
       \o [i \in 1 .. n |-> Step("add", c.profiles[i], n + 1 - i)]
       \o <<Step("wpa", 0, 0)>>

ApplySteps == <<Ctor, Step("apply", 0, 0)>>
ResetSteps == <<Ctor, Revert, Step("copyWpa", 0, 0), Step("copyInterfaces", 0, 0)>>

-----------------------------------------------------------------------------
Init == /\ file = [f \in Files |-> CASE f = "json" -> Default
                                     [] f = "wpa" -> DefaultNets
                                     [] f = "interfaces" -> [auto |-> Default.will]]
        /\ todo = [p \in Programs |-> <<>>]
        /\ phase = [p \in Programs |-> "load"]
        /\ root = [p \in Programs |-> Torn]
        /\ networks = [p \in Programs |-> <<>>]
        /\ ops = 0 /\ crashes = 0
        /\ serial = TRUE
        /\ goal = NoGoal

Busy(p) == todo[p] # <<>>
Quiet == \A p \in Programs : ~Busy(p)

-----------------------------------------------------------------------------
(* The beginning of an operation.                                          *)

Begins(p, steps) == /\ ~Busy(p)
                    /\ ops < MaxOps
                    /\ ops' = ops + 1
                    /\ todo' = [todo EXCEPT ![p] = steps]
                    /\ UNCHANGED <<file, phase, root, networks, crashes>>

(* What the files should say after an operation that starts on a quiet     *)
(* system: "c" in the JSON file, and its setting in the interfaces file    *)
(* unless there is no line left in it to change.                           *)
Promise(c, i) == goal' = IF serial' THEN [json |-> c, interfaces |-> i] ELSE NoGoal
Expect(c) == Promise(c, IF file["interfaces"] = Torn THEN Torn
                                                     ELSE [auto |-> c.will])
Loaded == IF file["json"] = Torn THEN Default ELSE file["json"]

(* getJSON() by a tool of the web server: it constructs a manager.         *)
Get(p) == /\ Begins(p, <<Ctor>>)
          /\ serial' = (serial /\ Quiet)
          /\ Promise(goal.json, goal.interfaces)

(* The tool with a configuration on its input.                             *)
SetJson(p) == \E c \in Requests :
                /\ Begins(p, <<Ctor>> \o SetSteps(c))
                /\ serial' = Quiet
                /\ Expect(c)

(* applyConfiguration(), and the LCD menu joining a network: it brings the *)
(* interface up with a wpa_supplicant.conf of its own, then applies the    *)
(* saved configuration.                                                    *)
Apply(p) == /\ Begins(p, ApplySteps)
            /\ serial' = Quiet
            /\ Expect(Loaded)

JoinNetwork(p) == \E s \in Ssids :
                    /\ Begins(p, <<Step("join", s, 0)>> \o ApplySteps)
                    /\ serial' = Quiet
                    /\ Expect(Loaded)

(* setWillStartOnBootup() by the LCD menu, whose manager was constructed   *)
(* when the menu was started.                                              *)
SetWillStartOnBootup(p) ==
  \E b \in BOOLEAN : /\ Begins(p, <<Step("will", b, 0)>>)
                     /\ serial' = (serial /\ Quiet)
                     /\ Expect([Loaded EXCEPT !.will = b])

(* WirelessNetworkingConfigManager::revertToDefault().                     *)
RevertToDefault(p) == /\ Begins(p, ResetSteps)
                      /\ serial' = Quiet
                      /\ Promise(Default, [auto |-> Default.will])

-----------------------------------------------------------------------------
(* The steps of an operation.                                              *)

Now(p) == Head(todo[p])
Doing(p, what, ph) == Busy(p) /\ Now(p).do \in what /\ phase[p] = ph
Rest(p, steps) == [todo EXCEPT ![p] = steps \o Tail(@)]

(* A fault for CtorLoads: the failure is only reported.                    *)
ReportingCtorLoads(p) ==
  /\ Doing(p, {"ctor"}, "load")
  /\ todo' = Rest(p, <<>>)
  /\ UNCHANGED <<file, phase, root, networks, ops, crashes, ghosts>>

(* The constructor loads the file and reverts it when that fails.          *)
CtorLoads(p) == /\ Doing(p, {"ctor"}, "load")
                /\ todo' = Rest(p, IF file["json"] = Torn THEN <<Revert>> ELSE <<>>)
                /\ UNCHANGED <<file, phase, root, networks, ops, crashes, ghosts>>

(* applyConfiguration() sets what it has loaded; setJson(null) does        *)
(* nothing.                                                                *)
ApplyLoads(p) == /\ Doing(p, {"apply"}, "load")
                 /\ todo' = Rest(p, IF file["json"] = Torn THEN <<>>
                                                           ELSE SetSteps(file["json"]))
                 /\ UNCHANGED <<file, phase, root, networks, ops, crashes, ghosts>>

(* A profile that setJson does not know is skipped, but counts for the     *)
(* priorities of the others.                                               *)
Skips(p) == /\ Doing(p, {"add"}, "load")
            /\ Now(p).arg \in Unknown
            /\ todo' = Rest(p, <<>>)
            /\ UNCHANGED <<file, phase, root, networks, ops, crashes, ghosts>>

(* A setter loads the file; when that fails it returns false, and what     *)
(* depends on its success is left out.  EtcNetworkInterfacesConf::save     *)
(* loads the interfaces file in any case.                                  *)
SetterLoads(p) ==
  /\ Doing(p, {"will", "add", "interfaces"}, "load")
  /\ Now(p).arg \notin Unknown
  /\ root' = [root EXCEPT ![p] = file[FileOf(Now(p))]]
  /\ IF root'[p] = Torn /\ Now(p).do # "interfaces"
       THEN todo' = Rest(p, <<>>) /\ UNCHANGED phase
       ELSE phase' = [phase EXCEPT ![p] = "save"] /\ UNCHANGED todo
  /\ UNCHANGED <<file, networks, ops, crashes, ghosts>>

(* ConfigFile::save and the others open the file for output, and cp does   *)
(* the same to its target.                                                 *)
Truncates(p) ==
  /\ \/ Doing(p, {"will", "add", "interfaces"}, "save")
     \/ Doing(p, {"revert", "wpa", "join", "copyWpa", "copyInterfaces"}, "load")
  /\ file' = [file EXCEPT ![FileOf(Now(p))] = Torn]
  /\ phase' = [phase EXCEPT ![p] = "write"]
  /\ UNCHANGED <<todo, root, networks, ops, crashes, ghosts>>

(* What a save writes.  Without its marker lines the interfaces file is    *)
(* copied as it is.                                                        *)
Text(p) ==
  LET s == Now(p)
  IN CASE s.do = "revert" -> Default
       [] s.do = "will" -> [root[p] EXCEPT !.will = s.arg]
       [] s.do = "add" -> [root[p] EXCEPT !.profiles = Append(@, s.arg)]
       [] s.do = "interfaces" -> IF root[p] = Torn THEN Torn
                                                       ELSE [auto |-> s.arg]
       [] s.do = "copyInterfaces" -> [auto |-> Default.will]
       [] s.do = "wpa" -> [nets |-> networks[p], catchAll |-> TRUE]
       [] s.do = "join" -> [nets |-> <<[ssid |-> s.arg, priority |-> 0]>>,
                            catchAll |-> FALSE]
       [] s.do = "copyWpa" -> DefaultNets

(* The text is written from the start of the file.  If another program has *)
(* written since, the tail of its text may stay behind: the JSON reader    *)
(* stops at the end of the first value, the readers of the other files     *)
(* may not cope.                                                           *)
Writes(p) ==
  LET f == FileOf(Now(p))
      s == Now(p)
  IN /\ Busy(p) /\ phase[p] = "write"
     /\ \E text \in {Text(p)} \union (IF f = "json" \/ file[f] \in {Torn, Text(p)}
                                        THEN {} ELSE {Torn}) :
          file' = [file EXCEPT ![f] = text]
     /\ phase' = [phase EXCEPT ![p] = "load"]
     /\ todo' = Rest(p, IF s.do = "will" THEN <<Step("interfaces", s.arg, 0)>>
                                         ELSE <<>>)
     /\ root' = [root EXCEPT ![p] = Torn]
     /\ networks' = [networks EXCEPT
          ![p] = CASE s.do = "add" -> Append(@, [ssid |-> s.arg, priority |-> s.pri])
                   [] s.do = "wpa" -> <<>>
                   [] OTHER -> @]
     /\ UNCHANGED <<ops, crashes, ghosts>>

Steps(p) == CtorLoads(p) \/ ApplyLoads(p) \/ Skips(p) \/ SetterLoads(p)
              \/ Truncates(p) \/ Writes(p)

(* A fault for Crash: nothing is applied at boot.                          *)
BareCrash == /\ crashes < MaxCrashes
             /\ crashes' = crashes + 1
             /\ todo' = [p \in Programs |-> <<>>]
             /\ phase' = [p \in Programs |-> "load"]
             /\ networks' = [p \in Programs |-> <<>>]
             /\ root' = [p \in Programs |-> Torn]
             /\ serial' = FALSE
             /\ Expect(Loaded)
             /\ UNCHANGED <<file, ops>>

(* Power is lost: every program is gone, the files stay as they are, and   *)
(* the next boot applies the configuration.                                *)
Crash == /\ crashes < MaxCrashes
         /\ crashes' = crashes + 1
         /\ todo' = [p \in Programs |-> IF p = Boot THEN ApplySteps ELSE <<>>]
         /\ phase' = [p \in Programs |-> "load"]
         /\ networks' = [p \in Programs |-> <<>>]
         /\ root' = [p \in Programs |-> Torn]
         /\ serial' = TRUE
         /\ Expect(Loaded)
         /\ UNCHANGED <<file, ops>>

Next == \/ \E p \in Users : \/ Get(p) \/ SetJson(p) \/ Apply(p) \/ JoinNetwork(p)
                            \/ SetWillStartOnBootup(p) \/ RevertToDefault(p)
        \/ \E p \in Programs : Steps(p)
        \/ Crash

Spec == Init /\ [][Next]_vars
(* A program runs to its end unless power is lost.                         *)
FairSpec == Spec /\ \A p \in Programs : WF_vars(Steps(p))
-----------------------------------------------------------------------------
Entries == [ssid : Ssids, priority : Nat]
AllSteps ==
  [do : {"ctor", "revert", "apply", "wpa", "copyWpa", "copyInterfaces"},
   arg : {0}, pri : {0}]
  \union [do : {"will", "interfaces"}, arg : BOOLEAN, pri : {0}]
  \union [do : {"join"}, arg : Ssids, pri : {0}]
  \union [do : {"add"}, arg : Ssids \union Unknown, pri : Nat \ {0}]

WpaTexts == [nets : Seq(Entries), catchAll : BOOLEAN]
InterfacesTexts == [auto : BOOLEAN]

(* Types: each file holds a text of its own kind or is torn; and setJson   *)
(* counts the priorities of the profiles down without reaching 0, that of  *)
(* the network that matches anything (WpaSupplicantConf.cpp:73).           *)
TypeOK ==
  /\ file \in [Files -> Configs \union WpaTexts \union InterfacesTexts \union {Torn}]
  /\ file["json"] \in Configs \union {Torn}
  /\ file["wpa"] \in WpaTexts \union {Torn}
  /\ file["interfaces"] \in InterfacesTexts \union {Torn}
  /\ todo \in [Programs -> Seq(AllSteps)]
  /\ phase \in [Programs -> {"load", "save", "write"}]
  /\ root \in [Programs -> Configs \union InterfacesTexts \union {Torn}]
  /\ networks \in [Programs -> Seq(Entries)]
  /\ ops \in Nat /\ crashes \in Nat
  /\ serial \in BOOLEAN
  /\ goal \in [json : [will : BOOLEAN, profiles : Seq(Ssids \union Unknown)],
              interfaces : InterfacesTexts \union {Torn}]

(* Whenever no program is at work the configuration can be loaded: a file  *)
(* that a crash or another program's save has left torn is reverted by the *)
(* constructor of some manager, the boot's at the latest                   *)
(* (ConfigFile.h:40).                                                      *)
QuietJsonLoads == Quiet => file["json"] # Torn

(* The networks of wpa_supplicant.conf are the profiles, in their order,   *)
(* each preferred to the next.                                             *)
Follows(wpa, profiles) ==
  /\ wpa # Torn /\ wpa.catchAll
  /\ Len(wpa.nets) = Len(profiles)
  /\ \A i \in 1 .. Len(profiles) :
       /\ wpa.nets[i].ssid = profiles[i]
       /\ wpa.nets[i].priority > (IF i = Len(profiles) THEN 0
                                                      ELSE wpa.nets[i + 1].priority)

(* kept is profiles without those that setJson does not know: the other     *)
(* places of profiles, in their order.                                     *)
IsKnown(kept, profiles) ==
  LET places == {j \in 1 .. Len(profiles) : profiles[j] \notin Unknown}
  IN \E f \in [1 .. Len(kept) -> places] :
       /\ \A j \in places : \E k \in 1 .. Len(kept) : f[k] = j
       /\ \A k, m \in 1 .. Len(kept) : k < m => f[k] < f[m]
       /\ \A k \in 1 .. Len(kept) : kept[k] = profiles[f[k]]

(* Operations that neither overlap nor are cut off do what they say, from  *)
(* any state a crash may have left: the JSON file has exactly the settings *)
(* of the last one, with the profiles setJson knows, and the system files  *)
(* follow it.  An interfaces file that was torn before stays torn.         *)
Exact(g, json, wpa, interfaces) ==
  /\ json # Torn /\ json.will = g.json.will
  /\ IsKnown(json.profiles, g.json.profiles)
  /\ Follows(wpa, json.profiles)
  /\ interfaces = g.interfaces

SerialExact ==
  Quiet /\ serial => Exact(goal, file["json"], file["wpa"], file["interfaces"])

(* A torn configuration does not stay: with no further operation the boot, *)
(* or the program that was writing, leaves one that can be loaded.         *)
JsonRecovers == file["json"] = Torn ~> file["json"] # Torn

(* applyConfiguration "does whatever necessary to ensure that the user's   *)
(* saved configuration is correctly reflected in the system's config       *)
(* files" (ConfigFile.h:61).  The code does not: a torn interfaces file    *)
(* has no marker and is copied as it is (EtcNetworkInterfacesConf.cpp:26   *)
(* restores it only if it cannot be read).                                 *)
ReflectedInInterfaces ==
  Quiet /\ serial => file["interfaces"] = [auto |-> file["json"].will]

(* A program that only reads leaves the configuration alone: violated, its *)
(* constructor reverts a file that another program is about to write.      *)
ReadersChangeNothing ==
  [][\A p \in Programs :
        Doing(p, {"revert"}, "write") /\ Len(todo[p]) = 1 /\ Writes(p)
          => file["json"] = Torn]_vars

(* A saved configuration survives a loss of power when no user's program   *)
(* is running: violated, the boot reverts it before it sets it again.      *)
SavedSurvives ==
  [][\A p \in Programs : Crash /\ (\A q \in Users : ~Busy(q)) /\ serial
        => /\ file["json"] # Torn
           /\ IsKnown(file["json"].profiles, goal.json.profiles)]_vars
=============================================================================
