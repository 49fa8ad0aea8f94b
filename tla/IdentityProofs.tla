--------------------------- MODULE IdentityProofs ---------------------------
(***************************************************************************)
(* Proofs about Identity.tla, for any processes, identities and number of  *)
(* commands.                                                               *)
(***************************************************************************)
EXTENDS Identity, TLAPS

(* A process that generates a key, or has loaded one, knows whose it is,   *)
(* and a database that is open exists.                                     *)
TypeInv ==
    /\ TypeOK
    /\ \A p \in Proc : pc[p] \in {"deriving", "writing", "running", "saving"} =>
          self[p] \in Ident
    /\ dbOpen # {} => db # None

NukeSteps == {"key", "db", "state"}
Generating == {p \in Proc : pc[p] \in {"deriving", "writing"}}

(* Why a key file is not written over: who derives a key found none and    *)
(* finds none, and who writes one has it open alone, unless another does   *)
(* the same.  And a nuke that is alone is.                                 *)
KeyInv ==
    /\ \A p \in Proc : pc[p] # "off" => (command[p] = "nuke" <=> pc[p] \in NukeSteps)
    /\ \A p \in alone : pc[p] \in NukeSteps /\ \A q \in Proc \ {p} : pc[q] = "off"
    /\ \A p \in keyOpen : pc[p] = "writing"
    /\ \A p, q \in Generating : p # q => "twice" \in disorder
    /\ \A p \in Proc : pc[p] = "deriving" /\ key # None => "twice" \in disorder
    /\ \A p \in keyOpen : key # Torn => "twice" \in disorder

(* Why nothing survives a nuke that is alone: it has deleted what it has   *)
(* passed, and as long as nothing disturbs the order every nuke is alone,  *)
(* a key is written next to no other file, and clients use the key that    *)
(* is in the file.                                                         *)
Deleted ==
    \A p \in alone :
        /\ pc[p] \in {"db", "state"} => key = None
        /\ pc[p] = "state" => db = None

Ordered ==
    disorder = {} => \A p \in Proc :
        /\ pc[p] \in NukeSteps => p \in alone
        /\ pc[p] = "writing" => p \in keyOpen
        /\ pc[p] \in {"running", "saving"} => key = self[p]
        /\ p \in Generating => db = None /\ state = None

FileInv == Deleted /\ Ordered /\ NothingSurvives

(* Every variable keeps its type on every step of every command, and the *)
(* files that are open exist.                                              *)
THEOREM TypesAreKept == Spec => []TypeInv
<1>1. Init => TypeInv
  BY IdentityAssumption DEF Init, TypeInv, TypeOK, Content, Client
<1>2. ASSUME TypeInv, [Next]_vars PROVE TypeInv'
  <2> USE <1>2, IdentityAssumption DEF TypeInv, TypeOK, Content, Client, Goto,
      Ends, files, kept, opens, procs
  <2>1. ASSUME NEW p \in Proc, RunInit(p) PROVE TypeInv'
    BY <2>1 DEF RunInit, Launch
  <2>2. ASSUME NEW p \in Proc, RunNuke(p) PROVE TypeInv'
    BY <2>2 DEF RunNuke, Launch
  <2>3. ASSUME NEW p \in Proc, NEW cmd \in Client \union {"whoami"},
               RunWithIdentity(p, cmd)
        PROVE  TypeInv'
    BY <2>3 DEF RunWithIdentity, Launch, Client
  <2>4. ASSUME NEW p \in Proc, NEW id \in Ident, Generate(p, id) PROVE TypeInv'
    BY <2>4 DEF Generate, MayGenerate
  <2>5. ASSUME NEW p \in Proc, GenerateRefuses(p) PROVE TypeInv'
    BY <2>5 DEF GenerateRefuses
  <2>6. ASSUME NEW p \in Proc, OpenKey(p) PROVE TypeInv'
    BY <2>6 DEF OpenKey
  <2>7. ASSUME NEW p \in Proc, WriteKey(p) PROVE TypeInv'
    BY <2>7 DEF WriteKey
  <2>8. ASSUME NEW p \in Proc, Load(p) PROVE TypeInv'
    BY <2>8 DEF Load, Loadable, UsesDb, Client
  <2>9. ASSUME NEW p \in Proc, LoadEnds(p) PROVE TypeInv'
    BY <2>9 DEF LoadEnds, Client
  <2>10. ASSUME NEW p \in Proc, DaemonSaves(p) PROVE TypeInv'
    BY <2>10 DEF DaemonSaves, UsesDb
  <2>11. ASSUME NEW p \in Proc, AppUses(p) \/ AppLogs(p) PROVE TypeInv'
    BY <2>11 DEF AppUses, AppLogs, UsesDb
  <2>12. ASSUME NEW p \in Proc, OpenState(p) PROVE TypeInv'
    BY <2>12 DEF OpenState
  <2>13. ASSUME NEW p \in Proc, Quit(p) PROVE TypeInv'
    BY <2>13 DEF Quit
  <2>14. ASSUME NEW p \in Proc, NukeKey(p) PROVE TypeInv'
    BY <2>14 DEF NukeKey, AfterKey
  <2>15. ASSUME NEW p \in Proc, NukeDb(p) PROVE TypeInv'
    BY <2>15 DEF NukeDb
  <2>16. ASSUME NEW p \in Proc, NukeState(p) PROVE TypeInv'
    BY <2>16 DEF NukeState
  <2>17. ASSUME NEW p \in Proc, Kill(p) PROVE TypeInv'
    BY <2>17 DEF Kill
  <2>18. CASE UNCHANGED vars
    BY <2>18 DEF vars
  <2> QED BY <2>1, <2>2, <2>3, <2>4, <2>5, <2>6, <2>7, <2>8, <2>9, <2>10,
      <2>11, <2>12, <2>13, <2>14, <2>15, <2>16, <2>17, <2>18 DEF Next, Step
<1> QED BY <1>1, <1>2, PTL DEF Spec

(* Whoever writes the key file does so alone, or two inits were at work.   *)
THEOREM KeysAreGuarded == Spec => []KeyInv
<1>1. Init => KeyInv
  BY IdentityAssumption DEF Init, KeyInv, Generating, NukeSteps, TypeInv,
      TypeOK, Content, Active, Nuking
<1>2. ASSUME TypeInv, TypeInv', KeyInv, [Next]_vars PROVE KeyInv'
  <2> USE <1>2, IdentityAssumption DEF KeyInv, Generating, NukeSteps, TypeInv,
      TypeOK, Content, Active, Nuking, Goto, Ends, files, kept, opens,
      procs
  <2>1. ASSUME NEW p \in Proc, RunInit(p) PROVE KeyInv'
    BY <2>1 DEF RunInit, Launch
  <2>2. ASSUME NEW p \in Proc, RunNuke(p) PROVE KeyInv'
    BY <2>2 DEF RunNuke, Launch
  <2>3. ASSUME NEW p \in Proc, NEW cmd \in Client \union {"whoami"},
               RunWithIdentity(p, cmd)
        PROVE  KeyInv'
    BY <2>3 DEF RunWithIdentity, Launch, Client
  <2>4. ASSUME NEW p \in Proc, NEW id \in Ident, Generate(p, id) PROVE KeyInv'
    BY <2>4 DEF Generate, MayGenerate
  <2>5. ASSUME NEW p \in Proc, GenerateRefuses(p) PROVE KeyInv'
    BY <2>5 DEF GenerateRefuses
  <2>6. ASSUME NEW p \in Proc, OpenKey(p) PROVE KeyInv'
    BY <2>6 DEF OpenKey
  <2>7. ASSUME NEW p \in Proc, WriteKey(p) PROVE KeyInv'
    BY <2>7 DEF WriteKey
  <2>8. ASSUME NEW p \in Proc, Load(p) PROVE KeyInv'
    BY <2>8 DEF Load, Loadable, UsesDb, Client
  <2>9. ASSUME NEW p \in Proc, LoadEnds(p) PROVE KeyInv'
    BY <2>9 DEF LoadEnds, Client
  <2>10. ASSUME NEW p \in Proc, DaemonSaves(p) PROVE KeyInv'
    BY <2>10 DEF DaemonSaves, UsesDb
  <2>11. ASSUME NEW p \in Proc, AppUses(p) \/ AppLogs(p) PROVE KeyInv'
    BY <2>11 DEF AppUses, AppLogs, UsesDb
  <2>12. ASSUME NEW p \in Proc, OpenState(p) PROVE KeyInv'
    BY <2>12 DEF OpenState
  <2>13. ASSUME NEW p \in Proc, Quit(p) PROVE KeyInv'
    BY <2>13 DEF Quit
  <2>14. ASSUME NEW p \in Proc, NukeKey(p) PROVE KeyInv'
    BY <2>14 DEF NukeKey, AfterKey
  <2>15. ASSUME NEW p \in Proc, NukeDb(p) PROVE KeyInv'
    BY <2>15 DEF NukeDb
  <2>16. ASSUME NEW p \in Proc, NukeState(p) PROVE KeyInv'
    BY <2>16 DEF NukeState
  <2>17. ASSUME NEW p \in Proc, Kill(p) PROVE KeyInv'
    BY <2>17 DEF Kill
  <2>18. CASE UNCHANGED vars
    BY <2>18 DEF vars
  <2> QED BY <2>1, <2>2, <2>3, <2>4, <2>5, <2>6, <2>7, <2>8, <2>9, <2>10,
      <2>11, <2>12, <2>13, <2>14, <2>15, <2>16, <2>17, <2>18 DEF Next, Step
<1> QED BY <1>1, <1>2, TypesAreKept, PTL DEF Spec

(* As long as nothing disturbs it, files belong to the key that is there.  *)
THEOREM FilesAreOrdered == Spec => []FileInv
<1>1. Init => FileInv
  BY IdentityAssumption DEF Init, FileInv, Deleted, Ordered, NothingSurvives,
      KeyInv, Generating, NukeSteps, TypeInv, TypeOK, Content, Active, Nuking
<1>2. ASSUME TypeInv, TypeInv', KeyInv, KeyInv', FileInv, [Next]_vars PROVE FileInv'
  <2> USE <1>2, IdentityAssumption DEF FileInv, Deleted, Ordered,
      NothingSurvives, KeyInv, Generating, NukeSteps, TypeInv, TypeOK, Content,
      Active, Nuking, Goto, Ends, files, kept, opens,
      procs
  <2>1. ASSUME NEW p \in Proc, RunInit(p) PROVE FileInv'
    BY <2>1 DEF RunInit, Launch
  <2>2. ASSUME NEW p \in Proc, RunNuke(p) PROVE FileInv'
    BY <2>2 DEF RunNuke, Launch
  <2>3. ASSUME NEW p \in Proc, NEW cmd \in Client \union {"whoami"},
               RunWithIdentity(p, cmd)
        PROVE  FileInv'
    BY <2>3 DEF RunWithIdentity, Launch, Client
  <2>4. ASSUME NEW p \in Proc, NEW id \in Ident, Generate(p, id) PROVE FileInv'
    BY <2>4 DEF Generate, MayGenerate
  <2>5. ASSUME NEW p \in Proc, GenerateRefuses(p) PROVE FileInv'
    BY <2>5 DEF GenerateRefuses
  <2>6. ASSUME NEW p \in Proc, OpenKey(p) PROVE FileInv'
    BY <2>6 DEF OpenKey
  <2>7. ASSUME NEW p \in Proc, WriteKey(p) PROVE FileInv'
    BY <2>7 DEF WriteKey
  <2>8. ASSUME NEW p \in Proc, Load(p) PROVE FileInv'
    BY <2>8 DEF Load, Loadable, UsesDb, Client
  <2>9. ASSUME NEW p \in Proc, LoadEnds(p) PROVE FileInv'
    BY <2>9 DEF LoadEnds, Client
  <2>10. ASSUME NEW p \in Proc, DaemonSaves(p) PROVE FileInv'
    BY <2>10 DEF DaemonSaves, UsesDb
  <2>11. ASSUME NEW p \in Proc, AppUses(p) \/ AppLogs(p) PROVE FileInv'
    BY <2>11 DEF AppUses, AppLogs, UsesDb
  <2>12. ASSUME NEW p \in Proc, OpenState(p) PROVE FileInv'
    BY <2>12 DEF OpenState
  <2>13. ASSUME NEW p \in Proc, Quit(p) PROVE FileInv'
    BY <2>13 DEF Quit
  <2>14. ASSUME NEW p \in Proc, NukeKey(p) PROVE FileInv'
    BY <2>14 DEF NukeKey, AfterKey
  <2>15. ASSUME NEW p \in Proc, NukeDb(p) PROVE FileInv'
    BY <2>15 DEF NukeDb
  <2>16. ASSUME NEW p \in Proc, NukeState(p) PROVE FileInv'
    BY <2>16 DEF NukeState
  <2>17. ASSUME NEW p \in Proc, Kill(p) PROVE FileInv'
    BY <2>17 DEF Kill
  <2>18. CASE UNCHANGED vars
    BY <2>18 DEF vars
  <2> QED BY <2>1, <2>2, <2>3, <2>4, <2>5, <2>6, <2>7, <2>8, <2>9, <2>10,
      <2>11, <2>12, <2>13, <2>14, <2>15, <2>16, <2>17, <2>18 DEF Next, Step
<1> QED BY <1>1, <1>2, TypesAreKept, KeysAreGuarded, PTL DEF Spec

(* identity.py, storage.py, cli.py: every variable has its type.           *)
THEOREM TypesHold == Spec => []TypeOK
<1>1. TypeInv => TypeOK
  BY DEF TypeInv
<1> QED BY <1>1, TypesAreKept, PTL

(* nuke (cli.py:126-147): however many commands run and wherever they are  *)
(* killed, after a nuke that was alone the files hold nothing of another   *)
(* identity than the one in the key file.                                  *)
THEOREM NukeIsThorough == Spec => []NothingSurvives
<1>1. FileInv => NothingSurvives
  BY DEF FileInv
<1> QED BY <1>1, FilesAreOrdered, PTL

(* generate_identity (identity.py:57-90): a whole key file goes only by a  *)
(* nuke, unless two inits derive their keys at the same time, although     *)
(* looking for the file and writing it are seconds apart.                  *)
THEOREM KeysAreKept == Spec => KeyIsKept
<1>1. ASSUME TypeInv, KeyInv, [Next]_vars PROVE [KeyKept]_vars
  <2> SUFFICES ASSUME NEW p \in Proc, Step(p), key \in Ident, key' # key
               PROVE  (key' = None /\ Nuking # {}) \/ "twice" \in disorder
    BY <1>1 DEF Next, KeyKept
  <2>1. OpenKey(p) \/ WriteKey(p) \/ NukeKey(p)
    BY DEF Step, RunInit, RunNuke, RunWithIdentity, Launch, Generate,
           GenerateRefuses, Load, LoadEnds, DaemonSaves, AppUses, AppLogs, OpenState,
           Quit, NukeDb, NukeState, Kill, files, Ends
  <2>2. CASE OpenKey(p)
    BY <1>1, <2>2, IdentityAssumption DEF OpenKey, KeyInv
  <2>3. CASE WriteKey(p)
    BY <1>1, <2>3, IdentityAssumption DEF WriteKey, KeyInv
  <2>4. CASE NukeKey(p)
    BY <1>1, <2>4 DEF NukeKey, KeyInv, NukeSteps, Nuking, Active
  <2> QED BY <2>1, <2>2, <2>3, <2>4
<1> QED BY <1>1, TypesAreKept, KeysAreGuarded, PTL DEF Spec, KeyIsKept

=============================================================================
