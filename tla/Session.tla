------------------------------- MODULE Session -------------------------------
(***************************************************************************)
(* Signing in, checking, signing out and the remote wipe, by commands of   *)
(* the CLI and by the tray, which share one config.json and one keyring.   *)
(*                                                                         *)
(* Nothing locks the two: each command reads the file, then the keyring,   *)
(* asks the server, and clears or stores in two steps.  A command may die  *)
(* between any two of them, a request may be lost, the keyring or the disk *)
(* may refuse.                                                             *)
(***************************************************************************)
EXTENDS Integers, FiniteSets

CONSTANTS
  Actor,             \* commands and tray goroutines at work
  Web, Person,       \* servers, accounts
  MaxToken,          \* bound: tokens minted
  MaxFaults          \* bound: losses, refusals, deaths

ASSUME NamesAssumption  == "none" \notin Web \cup Person
ASSUME FaultsAssumption == MaxFaults \in Nat

VARIABLES
  file,       \* config.json: server, account, backend, the token if it is inline
  rest,       \* whether the directory holds other state
  ring,       \* ring[w]: the token in the keyring under the server w, or 0
  token,      \* what the servers know of each token
  actor,      \* actor[a]: the command a process runs, and how far it is
  past        \* faults so far, or not to come; history: whether sign-ins ever mixed, the
              \* servers whose keyring entry was left (in actor: no sign-in wrote since a
              \* check loaded)
sessionVars == <<file, rest, ring, token, actor, past>>

Token    == 1 .. MaxToken
NoConfig == [server |-> "none", user |-> "none", backend |-> "none", token |-> 0]
Unminted == [at |-> "none", server |-> "none", owner |-> "none", met |-> FALSE]
Rest1    == [phase |-> "idle"]
NewActor == [kind |-> "none", phase |-> "idle", server |-> "none", user |-> "none",
             backend |-> "none", tok |-> 0, calm |-> TRUE]
SessionInit ==
  /\ file = NoConfig /\ rest = TRUE
  /\ ring = [w \in Web |-> 0]
  /\ token = [t \in Token |-> Unminted]
  /\ actor = [a \in Actor |-> Rest1]
  /\ past \in {[faults |-> n, mixed |-> FALSE, left |-> {}] : n \in 0 .. MaxFaults}

SignIn == {"password", "pair"}
Loads  == {"check", "logout", "trayLogout"}
Probes == {"check", "wipe"}            \* a check whose answer was the kill switch wipes
Checks == Loads \cup Probes
Is(a, kinds, phase) == actor[a].phase = phase /\ actor[a].kind \in kinds
Does(a, x)  == actor' = [actor EXCEPT ![a] = x]
Stores(a, x) == actor' = [b \in Actor |->
  CASE b = a -> x
    [] b # a /\ actor[b].phase # "idle" /\ actor[b].kind \in Checks ->
         [actor[b] EXCEPT !.calm = FALSE]
    [] OTHER -> actor[b]]
Goto(a, ph) == Does(a, IF ph = "idle" THEN Rest1 ELSE [actor[a] EXCEPT !.phase = ph])
Fault       == past.faults < MaxFaults /\ past' = [past EXCEPT !.faults = @ + 1]
Unminted1   == {t \in Token : token[t].at = "none"}
Good(t)     == token[t].at = "good"
Alive(t)    == token[t].at \in {"good", "wipe"}

-----------------------------------------------------------------------------
(* A sign-in.  pair claims a one-time code first; the owner's approval     *)
(* mints the token, which one poll collects; password mints one per        *)
(* request, also one whose answer is lost and that is sent again.  The     *)
(* variant stores it at once.                                              *)
StartSignIn(a) ==
  /\ actor[a].phase = "idle" /\ Unminted1 # {}
  /\ \E k \in SignIn, w \in Web, u \in Person :
       Does(a, [NewActor EXCEPT !.kind = k, !.phase = IF k = "pair" THEN "claim" ELSE "mint",
                             !.server = w, !.user = u])
  /\ UNCHANGED <<file, rest, ring, token, past>>
ClaimPair(a) ==
  /\ Is(a, {"pair"}, "claim")
  /\ Goto(a, "mint") /\ UNCHANGED <<file, rest, ring, token, past>>
Minted(a)  == CHOOSE t \in Unminted1 : TRUE
MintedNow(a) == [token EXCEPT ![Minted(a)] =
  [at |-> "good", server |-> actor[a].server, owner |-> actor[a].user, met |-> FALSE]]
Trusting(a)  == [actor[a] EXCEPT !.phase = "keyring", !.tok = Minted(a)]
Verifying(a) == [actor[a] EXCEPT !.phase = "verify", !.tok = Minted(a)]
Mint(a) ==
  /\ Is(a, SignIn, "mint") /\ Unminted1 # {}
  /\ token' = MintedNow(a)
  /\ \/ Does(a, Verifying(a)) /\ UNCHANGED past
     \/ actor[a].kind = "password" /\ Unminted1 # {Minted(a)} /\ Fault /\ UNCHANGED actor
     \/ Fault /\ Goto(a, "idle")
  /\ UNCHANGED <<file, rest, ring>>

(* "Verify the token before storing it": /me accepts it.  A kill switch    *)
(* that comes with the answer is not looked at.                            *)
Verify(a) ==
  LET t == actor[a].tok IN
  /\ Is(a, SignIn, "verify")
  /\ \/ Alive(t) /\ token' = [token EXCEPT ![t].met = TRUE] /\ Goto(a, "keyring") /\ UNCHANGED past
     \/ ~Alive(t) /\ Goto(a, "idle") /\ UNCHANGED <<token, past>>
     \/ Fault /\ Goto(a, "idle") /\ UNCHANGED token
  /\ UNCHANGED <<file, rest, ring>>

(* Save: the keyring, or the file when the keyring refuses; then the file, *)
(* and a keyring entry whose file cannot be written is deleted again, if   *)
(* the keyring lets it.                                                    *)
Saving == {a \in Actor : actor[a].phase = "config"}
SaveToken(a) ==
  /\ Is(a, SignIn, "keyring")
  /\ \E stored \in BOOLEAN :
       /\ stored \/ past.faults < MaxFaults
       /\ ring' = IF stored THEN [ring EXCEPT ![actor[a].server] = actor[a].tok] ELSE ring
       /\ Stores(a, [actor[a] EXCEPT !.phase = "config",
                                     !.backend = IF stored THEN "keyring" ELSE "file"])
       /\ past' = [past EXCEPT !.mixed = @ \/ Saving # {},
                               !.faults = @ + (IF stored THEN 0 ELSE 1)]
  /\ UNCHANGED <<file, rest, token>>
ConfigOf(x) == [server |-> x.server, user |-> x.user, backend |-> x.backend,
                token |-> IF x.backend = "file" THEN x.tok ELSE 0]
WriteState(a) ==
  /\ Is(a, SignIn, "config")
  /\ file' = ConfigOf(actor[a]) /\ rest' = TRUE
  /\ Stores(a, Rest1)
  /\ UNCHANGED <<ring, token, past>>
RollBack(a) ==
  /\ Is(a, SignIn, "config")
  /\ past.faults < MaxFaults
  /\ \E kept \in BOOLEAN :
       /\ kept => actor[a].backend = "keyring"
       /\ ring' = IF kept \/ actor[a].backend = "file" THEN ring
                  ELSE [ring EXCEPT ![actor[a].server] = 0]
       /\ past' = [past EXCEPT !.faults = @ + 1, !.mixed = @ \/ kept]
  /\ Goto(a, "idle")
  /\ UNCHANGED <<file, rest, token>>

-----------------------------------------------------------------------------
(* A check (authedClient, status, the tray's reload), or a logout.  Load   *)
(* reads the file, then the keyring; the tray clears even what it could    *)
(* not load.                                                               *)
LoadState(a) ==
  /\ actor[a].phase = "idle"
  /\ \E k \in Loads :
       /\ file # NoConfig \/ k = "trayLogout"
       /\ Does(a, [NewActor EXCEPT !.kind = k, !.server = file.server, !.backend = file.backend,
                             !.tok = file.token,
                             !.phase = IF file # NoConfig THEN "token" ELSE "clear"])
  /\ UNCHANGED <<file, rest, ring, token, past>>
LoadToken(a) ==
  LET x == actor[a]  t == IF x.backend = "file" THEN x.tok ELSE ring[x.server] IN
  /\ Is(a, Loads, "token")
  /\ CASE t = 0  -> Goto(a, IF x.kind = "trayLogout" THEN "clear" ELSE "idle")
       [] t # 0  -> Does(a, [x EXCEPT !.tok = t, !.phase = IF x.kind = "check" THEN "me"
                                                           ELSE "revoke"])
  /\ UNCHANGED <<file, rest, ring, token, past>>

(* /me: a 401 clears, the kill switch wipes (status does not look at it),  *)
(* any other error changes nothing.  What the answer was decides once.     *)
(* The variants wipe without clearing first, and take any error for a 401. *)
Clears(x) == [x EXCEPT !.phase = "clear"]
AfterMeWipes(x) == CASE token[x.tok].at = "revoked" -> {Clears(x)}
                     [] token[x.tok].at = "wipe"    -> {[x EXCEPT !.kind  = "wipe",
                                                                  !.phase = "wipe"]}
                     [] OTHER                       -> {Rest1}
AfterMe(x) == CASE token[x.tok].at = "revoked" -> {Clears(x)}
                [] token[x.tok].at = "wipe"    -> {Clears([x EXCEPT !.kind = "wipe"]), Rest1}
                [] OTHER                       -> {Rest1}
MeOrClear(a) ==
  /\ Is(a, {"check"}, "me")
  /\ \/ (\E y \in AfterMe(actor[a]) : Does(a, y)) /\ UNCHANGED past
     \/ Fault /\ Goto(a, "clear")
  /\ UNCHANGED <<file, rest, ring, token>>
Me(a) ==
  /\ Is(a, {"check"}, "me")
  /\ \/ (\E y \in AfterMe(actor[a]) : Does(a, y)) /\ UNCHANGED past
     \/ Fault /\ Goto(a, "idle")
  /\ UNCHANGED <<file, rest, ring, token>>
Logout(a) ==
  LET t == actor[a].tok IN
  /\ Is(a, {"logout", "trayLogout"}, "revoke")
  /\ \/ token' = [token EXCEPT ![t].at = "revoked"] /\ UNCHANGED past
     \/ Fault /\ UNCHANGED token
  /\ Goto(a, "clear")
  /\ UNCHANGED <<file, rest, ring>>

(* Clear: the keyring entry the file names now, then the file; a keyring   *)
(* that refuses is not heeded, a file that stays ends it.  WipeLocal goes  *)
(* on to the directory either way.                                         *)
Parted == past.left \cup {w \in Web : w = file.server /\ ring[w] # 0}
ClearToken(a) ==
  /\ Is(a, Checks, "clear")
  /\ \/ ring' = (IF file = NoConfig THEN ring ELSE [ring EXCEPT ![file.server] = 0])
        /\ UNCHANGED past
     \/ /\ file # NoConfig /\ past.faults < MaxFaults /\ UNCHANGED ring
        /\ past' = [past EXCEPT !.faults = @ + 1, !.left = Parted]
  /\ Goto(a, "remove")
  /\ UNCHANGED <<file, rest, token>>
ClearState(a) ==
  /\ Is(a, Checks, "remove")
  /\ \/ file' = NoConfig /\ past' = [past EXCEPT !.left = Parted]
     \/ file # NoConfig /\ Fault /\ UNCHANGED file
  /\ Goto(a, IF actor[a].kind = "wipe" THEN "wipe" ELSE "idle")
  /\ UNCHANGED <<rest, ring, token>>
WipeLocal(a) ==
  /\ Is(a, Checks, "wipe")
  /\ \/ file' = NoConfig /\ rest' = FALSE /\ past' = [past EXCEPT !.left = Parted]
     \/ rest /\ Fault /\ UNCHANGED <<file, rest>>
     \/ /\ rest /\ past.faults < MaxFaults /\ file' = NoConfig /\ UNCHANGED rest
        /\ past' = [past EXCEPT !.faults = @ + 1, !.left = Parted]
  /\ Goto(a, "idle")
  /\ UNCHANGED <<ring, token>>

Die(a) ==
  /\ actor[a].phase # "idle"
  /\ past.faults < MaxFaults
  /\ past' = [past EXCEPT !.faults = @ + 1, !.mixed = @ \/ a \in Saving]
  /\ Goto(a, "idle")
  /\ UNCHANGED <<file, rest, ring, token>>

(* The owner, in the web app: a device is revoked, or told to wipe itself. *)
Owner ==
  /\ \E t \in {u \in Token : Good(u)}, at \in {"revoked", "wipe"} :
       token' = [token EXCEPT ![t].at = at]
  /\ UNCHANGED <<file, rest, ring, actor, past>>

SessionNext ==
  \/ Owner
  \/ \E a \in Actor :
       \/ StartSignIn(a) \/ ClaimPair(a) \/ Mint(a) \/ Verify(a) \/ SaveToken(a)
       \/ WriteState(a) \/ RollBack(a) \/ LoadState(a) \/ LoadToken(a) \/ Me(a)
       \/ Logout(a) \/ ClearToken(a) \/ ClearState(a) \/ WipeLocal(a) \/ Die(a)
SessionSpec == SessionInit /\ [][SessionNext]_sessionVars

-----------------------------------------------------------------------------
Held == ({file.token} \cup {ring[w] : w \in Web}) \ {0}

(* "a credential that cannot fetch /me is worse than none": whatever       *)
(* sign-ins, losses and deaths interleave, a token that is stored anywhere *)
(* has once been accepted by /me, and the file's account is its owner      *)
(* unless two sign-ins stored at once, or one died or failed to roll back  *)
(* between its two steps.                                                  *)
Loaded == IF file.backend = "file" THEN file.token
          ELSE IF file.server \in Web THEN ring[file.server] ELSE 0
StoredIsVerified ==
  /\ \A t \in Held : token[t].met
  /\ Saving = {} /\ ~past.mixed /\ Loaded # 0
       => token[Loaded].owner = file.user /\ token[Loaded].server = file.server

(* A 401 clears "the local credential": a check never ends a session the   *)
(* server still accepts, unless a sign-in wrote after the check had begun  *)
(* to load the rejected one.                                               *)
ClearsOnlyRejected ==
  [][\A a \in Actor :
       /\ \E phase \in {"clear", "remove", "wipe"} : Is(a, Probes, phase)
       /\ actor'[a] # actor[a] /\ Loaded # 0 /\ Loaded' # Loaded
       => ~Good(Loaded) \/ ~actor[a].calm]_sessionVars

(* The kill switch "erases all local state", "keychain + config": when the *)
(* directory is gone no keyring entry holds the wiped token, whatever      *)
(* other commands clear meanwhile and whether or not the file could be     *)
(* removed on the way, unless a sign-in wrote after the check had begun to *)
(* load, or the entry of that server was left once: the keyring refused to *)
(* delete it, which nobody hears of, or a sign-in had written it between   *)
(* the two halves of a clearing.                                           *)
WipeLeavesNothing ==
  [][\A a \in Actor :
       Is(a, Checks, "wipe") /\ ~rest' /\ actor[a].calm /\ actor[a].server \notin past.left
       => file' = NoConfig /\ \A w \in Web : ring'[w] # actor[a].tok]_sessionVars
=============================================================================
