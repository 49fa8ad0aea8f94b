------------------------------- MODULE Identity -------------------------------
(***************************************************************************)
(* The files of a user and the commands that work on them: the key file    *)
(* (cli_social/identity.py), the database (storage.py) and state.json, in  *)
(* which the app keeps its relay (tui/app.py); and two files that no       *)
(* command deletes, the log of the app and the journal that SQLite leaves  *)
(* when a transaction is cut off.  The commands of cmds/cli.py are         *)
(* processes: any of them may run beside the others, and any may be killed *)
(* between two steps.                                                      *)
(*                                                                         *)
(* A file is known by the identity that owns what is in it.  Deleting a    *)
(* file does not take it from those who have it open: what they write      *)
(* afterwards is in no directory.                                          *)
(***************************************************************************)
EXTENDS Naturals

CONSTANTS
    Proc,     \* processes
    Ident,    \* identities that can be generated
    None,     \* "no such file"
    Torn,     \* a file that was opened for writing and is not whole
    MaxRuns   \* bound: commands that are started

ASSUME IdentityAssumption ==
    /\ None \notin Ident /\ Torn \notin Ident /\ None # Torn
    /\ \A owners \in SUBSET Ident : owners # None
    /\ MaxRuns \in Nat

VARIABLES
    key,       \* identity.enc
    db,        \* data.db: the owners of its rows
    state,     \* state.json
    log,       \* debug.log: the identities it names
    journal,   \* data.db-journal: the owner of the transaction that was cut off
    pc,        \* what a process is doing
    command,   \* its command
    self,      \* the identity it generates or has loaded
    keyOpen,   \* processes that write the file that identity.enc names
    dbOpen,    \* processes whose daemon has the file that data.db names open
    used,      \* identities generated
    runs,
    \* History.
    alone,     \* nukes that nothing else ran beside
    disorder   \* what happened since the last nuke that was alone

files == <<key, db, state>>
kept == <<log, journal>>
opens == <<keyOpen, dbOpen>>
procs == <<pc, command, self>>
vars == <<files, kept, opens, procs, used, runs, alone, disorder>>

Client == {"tui", "daemon"}

Init ==
    /\ key = None /\ db = None /\ state = None
    /\ log = {} /\ journal = None
    /\ pc = [p \in Proc |-> "off"]
    /\ command = [p \in Proc |-> "none"]
    /\ self = [p \in Proc |-> None]
    /\ keyOpen = {} /\ dbOpen = {}
    /\ used = {}
    /\ runs = 0
    /\ alone = {}
    /\ disorder = {}

Active == {p \in Proc : pc[p] # "off"}
Nuking == {p \in Active : command[p] = "nuke"}

Goto(p, l) == pc' = [pc EXCEPT ![p] = l]

(* A process ends, or is killed; its files are closed. *)
Ends(p) ==
    /\ Goto(p, "off")
    /\ command' = [command EXCEPT ![p] = "none"]
    /\ self' = [self EXCEPT ![p] = None]
    /\ keyOpen' = keyOpen \ {p}
    /\ dbOpen' = dbOpen \ {p}

-----------------------------------------------------------------------------
(* Commands begin.                                                         *)

Launch(p, cmd, l) ==
    /\ pc[p] = "off"
    /\ runs < MaxRuns
    /\ runs' = runs + 1
    /\ Goto(p, l)
    /\ command' = [command EXCEPT ![p] = cmd]
    /\ alone' = IF cmd = "nuke" /\ Active = {} THEN {p} ELSE {}
    /\ disorder' = IF Nuking # {} \/ (cmd = "nuke" /\ Active # {})
                   THEN disorder \union {"beside"} ELSE disorder
    /\ UNCHANGED <<files, kept, opens, self, used>>

(* init: with an identity there is nothing to do; else the user is asked.  *)
RunInit(p) == key = None /\ Launch(p, "init", "asking")

(* tui, daemon, whoami: _require_identity() runs init if there is no key.  *)
RunWithIdentity(p, cmd) ==
    Launch(p, cmd, IF key = None THEN "asking" ELSE "passphrase")

RunNuke(p) == Launch(p, "nuke", "key")

-----------------------------------------------------------------------------
(* init.                                                                   *)

(* Mutant: only init looks for a key, before it asks for the passphrase.   *)
MayGenerate_Always == TRUE

MayGenerate == key = None

(* generate_identity(), when the passphrase has been entered twice. *)
Generate(p, id) ==
    /\ pc[p] = "asking"
    /\ MayGenerate
    /\ id \notin used
    /\ used' = used \union {id}
    /\ self' = [self EXCEPT ![p] = id]
    /\ Goto(p, "deriving")
    /\ disorder' = IF \E q \in Proc \ {p} : pc[q] \in {"deriving", "writing"}
                   THEN disorder \union {"twice"} ELSE disorder
    /\ UNCHANGED <<files, kept, opens, command, runs, alone>>

(* "Identity file already exists": the command fails. *)
GenerateRefuses(p) ==
    /\ pc[p] = "asking"
    /\ ~MayGenerate
    /\ Ends(p)
    /\ UNCHANGED <<files, kept, used, runs, alone, disorder>>

(* write_text(): the file is created or emptied, ... *)
OpenKey(p) ==
    /\ pc[p] = "deriving"
    /\ key' = Torn
    /\ keyOpen' = keyOpen \union {p}
    /\ Goto(p, "writing")
    /\ UNCHANGED <<db, state, kept, dbOpen, command, self, used, runs, alone, disorder>>

(* ... and written.  Over the text of another identity the rest of a       *)
(* longer text may remain; if the file was deleted, chmod() fails.         *)
WriteKey(p) ==
    /\ pc[p] = "writing"
    /\ IF p \in keyOpen
       THEN key' \in (IF key = Torn THEN {} ELSE {Torn}) \union {self[p]}
       ELSE UNCHANGED key
    /\ IF command[p] = "init" \/ key' = None
       THEN Ends(p)
       ELSE /\ Goto(p, "passphrase")
            /\ keyOpen' = keyOpen \ {p}
            /\ UNCHANGED <<dbOpen, command, self>>
    /\ UNCHANGED <<db, state, kept, used, runs, alone, disorder>>

-----------------------------------------------------------------------------
(* The clients.                                                            *)

(* Mutant: a key file that is there is whole. *)
Loadable_IfThere == key # None

(* The file exists, is parsed and is decrypted by the right passphrase. *)
Loadable == key \in Ident

(* SQLite rolls back what the journal is of, and deletes it; or deletes it  *)
(* when the database is new.                                               *)
UsesDb(owners) == db' = owners /\ journal' = None

(* load_identity() and Storage.open() *)
Load(p) ==
    /\ pc[p] = "passphrase" /\ command[p] \in Client
    /\ Loadable
    /\ self' = [self EXCEPT ![p] = key]
    /\ UsesDb(IF db = None THEN {} ELSE db)
    /\ dbOpen' = dbOpen \union {p}
    /\ Goto(p, "running")
    /\ UNCHANGED <<key, state, log, keyOpen, command, used, runs, alone, disorder>>

(* There is no file any more, or it cannot be parsed ("Wrong passphrase"); *)
(* whoami ends in any case.                                                *)
LoadEnds(p) ==
    /\ pc[p] = "passphrase"
    /\ ~Loadable \/ command[p] \notin Client
    /\ Ends(p)
    /\ UNCHANGED <<files, kept, used, runs, alone, disorder>>

(* The daemon saves a message in the database it opened. *)
DaemonSaves(p) ==
    /\ pc[p] = "running"
    /\ UsesDb(IF p \in dbOpen THEN db \union {self[p]} ELSE db)
    /\ UNCHANGED <<key, state, log, opens, procs, used, runs, alone, disorder>>

(* The app opens the database anew each time, to read or to save. *)
AppUses(p) ==
    /\ pc[p] = "running" /\ command[p] = "tui"
    /\ \E saved \in {{}, {self[p]}} : UsesDb(saved \union IF db = None THEN {} ELSE db)
    /\ UNCHANGED <<key, state, log, opens, procs, used, runs, alone, disorder>>

(* The app logs at level DEBUG, and the log names the peer. *)
AppLogs(p) ==
    /\ pc[p] = "running" /\ command[p] = "tui"
    /\ log' = log \union {self[p]}
    /\ UNCHANGED <<files, journal, opens, procs, used, runs, alone, disorder>>

(* action_quit(): the app writes its relay, if it has one, to state.json.  *)
OpenState(p) ==
    /\ pc[p] = "running" /\ command[p] = "tui"
    /\ state' = Torn
    /\ Goto(p, "saving")
    /\ UNCHANGED <<key, db, kept, opens, command, self, used, runs, alone, disorder>>

Quit(p) ==
    /\ \/ pc[p] = "saving" /\ state' = (IF state = None THEN None ELSE self[p])
       \/ pc[p] = "running" /\ UNCHANGED state
    /\ Ends(p)
    /\ UNCHANGED <<key, db, kept, used, runs, alone, disorder>>

-----------------------------------------------------------------------------
(* nuke.                                                                   *)

(* Mutant: without a key there is nothing to delete. *)
AfterKey_IfThere == IF key = None THEN "state" ELSE "db"

AfterKey == "db"

NukeKey(p) ==
    /\ pc[p] = "key"
    /\ key' = None
    /\ keyOpen' = {}
    /\ Goto(p, AfterKey)
    /\ UNCHANGED <<db, state, kept, dbOpen, command, self, used, runs, alone, disorder>>

NukeDb(p) ==
    /\ pc[p] = "db"
    /\ db' = None
    /\ dbOpen' = {}
    /\ Goto(p, "state")
    /\ UNCHANGED <<key, state, kept, keyOpen, command, self, used, runs, alone, disorder>>

(* "Wipe complete. You are a ghost again!" *)
NukeState(p) ==
    /\ pc[p] = "state"
    /\ state' = None
    /\ Ends(p)
    /\ disorder' = IF p \in alone THEN {} ELSE disorder
    /\ alone' = {}
    /\ UNCHANGED <<key, db, kept, used, runs>>

-----------------------------------------------------------------------------

(* A process is killed wherever it is, a client also in a transaction. *)
Kill(p) ==
    /\ pc[p] # "off"
    /\ Ends(p)
    /\ journal' \in {journal} \union IF pc[p] = "running" THEN {self[p]} ELSE {}
    /\ alone' = alone \ {p}
    /\ disorder' = IF command[p] = "nuke" THEN disorder \union {"interrupted"}
                   ELSE disorder
    /\ UNCHANGED <<files, log, used, runs>>

Step(p) ==
    \/ RunInit(p) \/ RunNuke(p) \/ \E cmd \in Client \union {"whoami"} : RunWithIdentity(p, cmd)
    \/ \E id \in Ident : Generate(p, id)
    \/ GenerateRefuses(p) \/ OpenKey(p) \/ WriteKey(p)
    \/ Load(p) \/ LoadEnds(p) \/ DaemonSaves(p) \/ AppUses(p) \/ AppLogs(p)
    \/ OpenState(p) \/ Quit(p)
    \/ NukeKey(p) \/ NukeDb(p) \/ NukeState(p)
    \/ Kill(p)

Next == \E p \in Proc : Step(p)

Spec == Init /\ [][Next]_vars

-----------------------------------------------------------------------------
(* Properties.                                                             *)

Content == Ident \union {None, Torn}

TypeOK ==
    /\ key \in Content /\ state \in Content
    /\ db = None \/ db \subseteq Ident
    /\ log \subseteq Ident /\ journal \in Ident \union {None}
    /\ pc \in [Proc -> {"off", "asking", "deriving", "writing", "passphrase", "running",
                        "saving", "key", "db", "state"}]
    /\ command \in [Proc -> {"none", "init", "whoami", "nuke"} \union Client]
    /\ self \in [Proc -> Ident \union {None}]
    /\ keyOpen \subseteq Proc /\ dbOpen \subseteq Proc
    /\ used \subseteq Ident
    /\ runs \in Nat
    /\ alone \subseteq Proc
    /\ disorder \subseteq {"beside", "interrupted", "twice"}

(* What a nuke leaves nothing of, in the three files that it deletes.      *)
(* Without a command beside a nuke, a nuke that was interrupted, or two    *)
(* inits at once, the database and state.json hold nothing of an identity  *)
(* but the one in the key file: not after a nuke and a new init, and not   *)
(* after nukes that were repeated.                                         *)
NothingSurvives ==
    disorder = {} =>
        /\ key \in Ident =>
              /\ db = None \/ db \subseteq {key}
              /\ state \in {None, Torn, key}
        /\ key = None /\ Nuking = {} => db = None /\ state = None

(* README.md:85, "everything is nuked"; cli.py:147, "You are a ghost       *)
(* again!": without a command beside a nuke, a nuke that was interrupted,  *)
(* or two inits at once, no file holds anything of an identity when there  *)
(* is no key and nothing runs.  Does not hold of the log and the journal.  *)
EverythingNuked ==
    disorder = {} /\ key = None /\ Active = {} =>
        db = None /\ state = None /\ log = {} /\ journal = None

(* The key file is never written over: a whole key goes only by a nuke,    *)
(* unless two inits were deriving their keys at the same time.             *)
KeyKept ==
    key \in Ident /\ key' # key =>
        \/ key' = None /\ Nuking # {}
        \/ "twice" \in disorder

KeyIsKept == [][KeyKept]_vars

=============================================================================
