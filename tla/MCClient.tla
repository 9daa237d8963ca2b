------------------------------- MODULE MCClient -------------------------------
(***************************************************************************)
(* Instances of the client's parts that talk to the server other than by   *)
(* syncing.  Each behaviour is one part, or several that share an account, *)
(* chosen at the start; the variables of the others stay as they are.      *)
(***************************************************************************)
EXTENDS FileCommands, WebdavBridge, UploadPool, CameraUpload, Session, ContextVerbs, TLC

CONSTANTS n1, n2, w1, w2     \* processes and handlers, servers and accounts
CONSTANT Parts               \* the parts a run is about

VARIABLE part

accountVars == <<server, lost>>
vars == <<accountVars, commandVars, bridgeVars, poolVars, cameraVars, sessionVars,
          verbVars, part>>

(* The account: files and folders with one id among the live and the       *)
(* trashed ones; one object of each kind.                                  *)
Item(at, folder, name) ==
  [at |-> at, folder |-> folder, name |-> name, data |-> "d", old |-> {}, ver |-> 1]
Dir1(at, parent, name) == [at |-> at, parent |-> parent, name |-> name]
CommandsAccount ==
  [files   |-> <<Item("live", 0, "a"), Item("trash", 1, "a")>>,
   folders |-> <<Dir1("live", 0, "b"), Dir1("trash", 0, "b")>>,
   objects |-> [o \in Kind \X {1} |-> [at |-> "live", ver |-> 1]]]
MountAccount ==
  [files   |-> <<Item("live", 1, "x")>>,
   folders |-> <<Dir1("live", 0, "a"), Dir1("live", 1, "b")>>,
   objects |-> << >>]
NoAccount == [files |-> << >>, folders |-> << >>, objects |-> << >>]
OnMountAccount == {"mount", "deep", "both", "explorer"}

Requests ==
  {[kind |-> r[1], path |-> r[2], to |-> r[3]] : r \in {
     <<"PROPFIND", <<"x">>, << >> >>, <<"GET", <<"a", "x">>, << >> >>,
     <<"MKCOL", <<"x">>, << >> >>, <<"DELETE", <<"a">>, << >> >>,
     <<"PUT", <<"a", "x">>, << >> >>, <<"PUT", <<"a", "y">>, << >> >>,
     <<"MOVE", <<"a", "x">>, <<"x">> >>, <<"MOVE", <<"a", "b">>, <<"x">> >>,
     <<"MOVE", <<"a", "b">>, <<"b">> >> }}
FewRequests == {r \in Requests : r.kind \in {"PROPFIND", "MKCOL", "DELETE"} \/ r.to = <<"x">>}
IdLists == {<<1>>, <<2>>, <<2, 1>>}

(* Of two commands at once, or of a command beside a mount, one is of the  *)
(* kind that takes away or changes what the other one works on; commands   *)
(* are killed when they are alone.                                         *)
Rivals == {"DeleteFile", "Rename", "Move", "Restore", "Purge", "UpdateFileShare"}
RivalsOf(cs) ==
  /\ \A c \in cs : proc'[c].phase # "killed"
  /\ (\A c \in cs : proc'[c] # Free) => \E c \in cs : proc'[c].inv.request \in Rivals

(* What Explorer clicks: a folder with a folder, an excluded one and a     *)
(* file below it, and a file.                                              *)
Entry(path, dir) == [path |-> path, dir |-> dir, data |-> "d"]
ClickedPaths ==
  {[path |-> <<"a">>,
    walk |-> <<Entry(<< >>, TRUE), Entry(<<"a">>, TRUE), Entry(<<"a", "x">>, FALSE),
               Entry(<<"b">>, TRUE), Entry(<<"b", "x">>, FALSE), Entry(<<"y">>, FALSE)>>],
   [path |-> <<"a", "x">>, walk |-> <<Entry(<<"x">>, FALSE)>>]}
OnePair == <<[local |-> <<"a">>, remote |-> <<"a">>]>>
NoCase  == [n \in Name |-> n]

(* Uploads: three arguments, of which two may be equal, one large.         *)
Arguments == <<"p", "q", "r">>
Contents  == {<<"a">>, <<"b">>, <<"a", "b">>}
Uploaded  == {[p |-> <<"a", "b">>, q |-> <<"a">>, r |-> <<"b">>],
              [p |-> <<"a">>, q |-> <<"a">>, r |-> <<"a", "b">>]}
Luck == \/ luck.runs = 2 /\ luck.edits = 0 /\ luck.failures = 1
        \/ luck.runs = 1 /\ luck.edits = 1 /\ luck.failures = 0

Init ==
  /\ part \in Parts
  /\ CommandsInit /\ BridgeInit /\ PoolInit /\ CameraInit /\ SessionInit /\ VerbInit
  /\ server = CASE part \in OnMountAccount -> MountAccount
                [] part \in {"alone", "commands"} -> CommandsAccount
                [] OTHER -> NoAccount
  /\ CASE part \in {"alone", "explorer"} -> lost = 0 /\ mount.left = 0
       [] part = "mount" -> \/ lost = MaxLost - 1 /\ mount.left = MaxRequests - 1
                            \/ lost = 0 /\ mount.left = 1
       [] part = "deep"  -> lost = MaxLost /\ mount.left = MaxRequests
       [] part = "both"  -> lost = MaxLost /\ mount.left = 1
       [] OTHER          -> lost = MaxLost /\ mount.left = 0
  /\ part # "mount" => ~mount.readOnly
  /\ local \in Uploaded
  /\ IF part = "uploads" THEN Luck ELSE luck.runs + luck.edits + luck.failures = 0
  /\ part # "uploads" => local = (CHOOSE l \in Uploaded : TRUE) /\ ~pool.gallery
  /\ past.faults = IF part = "session" THEN 0 ELSE MaxFaults
  /\ part # "explorer" => /\ verb.click = CHOOSE c \in ClickedPaths : TRUE
                          /\ shelf = << >>

(* With faults, one server, one account, one kind of sign-in and of logout. *)
FewKinds == {"password", "check", "wipe", "trayLogout"}
AtWork   == {a \in Actor : actor'[a] # Rest1}

IdleCommands == UNCHANGED commandVars
IdleBridge   == UNCHANGED bridgeVars
IdleRest     == UNCHANGED <<poolVars, cameraVars, sessionVars, verbVars>>

Next ==
  /\ UNCHANGED part
  /\ \/ /\ part = "alone" /\ CommandStep(n1) /\ IdleBridge /\ IdleRest
     \/ /\ part = "commands" /\ CommandsNext /\ IdleBridge /\ IdleRest
        /\ RivalsOf(Cli)
     \/ /\ part = "both" /\ IdleRest
        /\ \/ CommandStep(n1) /\ IdleBridge /\ RivalsOf({n1})
           \/ BridgeNext /\ IdleCommands
     \/ /\ part \in {"mount", "deep"} /\ BridgeNext /\ IdleCommands /\ IdleRest
        /\ part = "deep" => \A h \in Handler : req'[h] = Idle \/ req'[h].ask \in FewRequests
     \/ /\ part = "uploads" /\ PoolNext /\ IdleCommands /\ IdleBridge
        /\ UNCHANGED <<accountVars, cameraVars, sessionVars, verbVars>>
     \/ /\ part \in {"camera", "shutter"} /\ CameraNext /\ IdleCommands /\ IdleBridge
        /\ part = "camera" => camera'.ticks < MaxTicks - 1
        /\ part = "shutter" => shot'[w2].size = 0
        /\ UNCHANGED <<accountVars, poolVars, sessionVars, verbVars>>
     \/ /\ part \in {"session", "servers"} /\ SessionNext /\ IdleCommands /\ IdleBridge
        /\ part = "session" => \A a \in AtWork : actor'[a].server # w2 /\ actor'[a].user # w2
                                               /\ actor'[a].kind \in FewKinds
        /\ UNCHANGED <<accountVars, poolVars, cameraVars, verbVars>>
     \/ /\ part = "explorer" /\ VerbNext /\ IdleCommands /\ IdleBridge
        /\ UNCHANGED <<poolVars, cameraVars, sessionVars>>
Spec == Init /\ [][Next]_vars

Symmetry == Permutations({n1, n2}) \cup Permutations({w1, w2})
=============================================================================
