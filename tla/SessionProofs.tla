---------------------------- MODULE SessionProofs ----------------------------
(***************************************************************************)
(* That no token is stored before /me accepted it, and that what loads is  *)
(* the account the file names, for any number of commands, servers and     *)
(* accounts, through every failure and death between two halves; and that  *)
(* a check clears only what was rejected, and a wipe leaves nothing.       *)
(***************************************************************************)
EXTENDS Session, TLAPS

Token1 == [at : {"none", "good", "revoked", "wipe"}, server : Web \cup {"none"},
           owner : Person \cup {"none"}, met : BOOLEAN]
Busy   == [kind : SignIn \cup Checks,
           phase : {"claim", "mint", "verify", "keyring", "config",
                    "token", "me", "revoke", "clear", "remove", "wipe"},
           server : Web \cup {"none"}, user : Person \cup {"none"},
           backend : {"none", "keyring", "file"}, tok : Token \cup {0}, calm : BOOLEAN]
File1  == [server : Web, user : Person, backend : {"keyring", "file"}, token : Token \cup {0}]

Past1  == [faults : Nat, mixed : BOOLEAN, left : SUBSET Web]

SessionTypes ==
  /\ ring \in [Web -> Token \cup {0}]
  /\ token \in [Token -> Token1]
  /\ past \in Past1
  /\ actor \in [Actor -> Busy \cup {Rest1}]

(* A token nobody minted is not met; what is held was met at its server.   *)
FileOK ==
  file = NoConfig \/ /\ file \in File1
                     /\ file.token # 0 => /\ file.backend = "file"
                                          /\ token[file.token].met
                                          /\ token[file.token].server = file.server
                                          /\ token[file.token].owner = file.user
TokenOK ==
  /\ \A t \in Token : token[t].at = "none" => ~token[t].met
  /\ \A w \in Web : ring[w] # 0 => token[ring[w]].met /\ token[ring[w]].server = w

(* How far a sign-in is, and what it knows of its token by then.           *)
ActorOK(x) ==
  \/ x = Rest1
  \/ /\ x \in Busy
     /\ x.phase \in {"claim", "mint", "verify", "keyring", "config"}
          => x.server \in Web /\ x.user \in Person
     /\ x.phase = "token" => x.server \in Web
     /\ x.phase \in {"verify", "keyring", "config"}
          => /\ x.tok \in Token
             /\ token[x.tok].at # "none"
             /\ token[x.tok].server = x.server /\ token[x.tok].owner = x.user
     /\ x.phase \in {"keyring", "config"} => token[x.tok].met
     /\ x.phase = "config" => x.backend \in {"keyring", "file"}

(* The two halves of the store: while they have not parted, one command at *)
(* most is between them, the keyring holds its token or none, and else the *)
(* account of the keyring's token is the one the file names.               *)
HalvesOK ==
  ~past.mixed =>
    /\ \A a, b \in Saving : a = b
    /\ \A a \in Saving : actor[a].backend = "keyring"
                           => ring[actor[a].server] \in {0, actor[a].tok}
    /\ file # NoConfig /\ file.backend = "keyring" /\ ring[file.server] # 0
         => \/ token[ring[file.server]].owner = file.user
            \/ \E a \in Saving : actor[a].backend = "keyring" /\ actor[a].server = file.server

SessionInv ==
  SessionTypes /\ FileOK /\ TokenOK /\ (\A a \in Actor : ActorOK(actor[a])) /\ HalvesOK

LEMMA SessionStarts == SessionInit => SessionInv
<1> SUFFICES ASSUME SessionInit PROVE SessionInv OBVIOUS
<1>1. SessionTypes
  <2>1. Unminted \in Token1 BY DEF Unminted, Token1
  <2>2. past \in Past1
    <3>1. PICK n \in 0 .. MaxFaults : past = [faults |-> n, mixed |-> FALSE, left |-> {}]
      BY DEF SessionInit
    <3> QED BY <3>1, FaultsAssumption DEF Past1
  <2> QED BY <2>1, <2>2 DEF SessionInit, SessionTypes
<1>2. FileOK /\ TokenOK /\ \A a \in Actor : ActorOK(actor[a])
  BY DEF SessionInit, FileOK, TokenOK, ActorOK, Unminted
<1>3. Saving = {} BY DEF SessionInit, Saving, Rest1
<1>4. HalvesOK BY <1>3 DEF SessionInit, HalvesOK
<1> QED BY <1>1, <1>2, <1>4 DEF SessionInv

LEMMA InvImplies == SessionInv => StoredIsVerified
<1> SUFFICES ASSUME SessionInv PROVE StoredIsVerified OBVIOUS
<1>1. \A t \in Held : token[t].met
  BY DEF Held, SessionInv, FileOK, TokenOK, NoConfig
<1>2. ASSUME Saving = {}, ~past.mixed, Loaded # 0
      PROVE  token[Loaded].owner = file.user /\ token[Loaded].server = file.server
  <2>1. CASE file = NoConfig
    BY <1>2, <2>1, NamesAssumption DEF Loaded, NoConfig
  <2>2. CASE file \in File1 /\ file.backend = "file"
    BY <1>2, <2>2 DEF Loaded, SessionInv, FileOK, NoConfig, File1
  <2>3. CASE file \in File1 /\ file.backend = "keyring"
    <3>1. Loaded = ring[file.server] /\ file.server \in Web
      BY <2>3 DEF Loaded, File1
    <3>2. file # NoConfig BY <2>3 DEF NoConfig
    <3> QED BY <1>2, <2>3, <3>1, <3>2 DEF SessionInv, TokenOK, HalvesOK
  <2> QED BY <2>1, <2>2, <2>3 DEF SessionInv, FileOK, File1
<1> QED BY <1>1, <1>2 DEF StoredIsVerified

-----------------------------------------------------------------------------
(* A step in which one command goes on, nothing that is stored changes,    *)
(* and tokens are at most minted, met, revoked or marked for a wipe.       *)
TokensGrow ==
  /\ token' \in [Token -> Token1]
  /\ \A t \in Token :
       /\ token'[t].at = "none" => ~token'[t].met
       /\ token[t].at # "none" =>
            /\ token'[t].at # "none"
            /\ token'[t].server = token[t].server
            /\ token'[t].owner = token[t].owner
            /\ token[t].met => token'[t].met
LEMMA ActorsStayOK ==
  ASSUME SessionInv, TokensGrow, NEW x, ActorOK(x)
  PROVE  ActorOK(x)'
<1>1. CASE x = Rest1 BY <1>1 DEF ActorOK
<1>2. CASE x # Rest1
  <2> DEFINE t == x.tok
  <2>1. x \in Busy BY <1>2 DEF ActorOK
  <2>2. ASSUME x.phase \in {"verify", "keyring", "config"}
        PROVE  /\ t \in Token /\ token'[t].at # "none"
               /\ token'[t].server = x.server /\ token'[t].owner = x.user
    <3>1. /\ t \in Token /\ token[t].at # "none"
          /\ token[t].server = x.server /\ token[t].owner = x.user
      BY <1>2, <2>2 DEF ActorOK
    <3> HIDE DEF t
    <3> QED BY <3>1 DEF TokensGrow
  <2>3. ASSUME x.phase \in {"keyring", "config"} PROVE token'[t].met
    <3>1. t \in Token /\ token[t].at # "none" /\ token[t].met
      BY <1>2, <2>3 DEF ActorOK
    <3> HIDE DEF t
    <3> QED BY <3>1 DEF TokensGrow
  <2> QED BY <1>2, <2>1, <2>2, <2>3 DEF ActorOK
<1> QED BY <1>1, <1>2

(* While one command goes on, the others stay as they are, except that a   *)
(* check may learn that a sign-in wrote.                                   *)
OthersStay(a) ==
  /\ actor' \in [Actor -> Busy \cup {Rest1}]
  /\ \A b \in Actor \ {a} :
       \/ actor'[b] = actor[b]
       \/ actor[b] # Rest1 /\ actor'[b] = [actor[b] EXCEPT !.calm = FALSE]
LEMMA OthersAreOK ==
  ASSUME SessionInv, TokensGrow, NEW a \in Actor, OthersStay(a), ActorOK(actor[a])',
         NEW b \in Actor
  PROVE  /\ ActorOK(actor[b])'
         /\ b # a => /\ actor'[b].phase = actor[b].phase /\ actor'[b].tok = actor[b].tok
                     /\ actor'[b].server = actor[b].server
                     /\ actor'[b].backend = actor[b].backend
<1>1. CASE b = a BY <1>1
<1>2. CASE b # a /\ actor'[b] = actor[b]
  <2>1. ActorOK(actor[b]) BY DEF SessionInv
  <2>2. \A x : ActorOK(x) => ActorOK(x)' BY ActorsStayOK
  <2> QED BY <1>2, <2>1, <2>2 DEF ActorOK
<1>3. CASE b # a /\ actor[b] # Rest1 /\ actor'[b] = [actor[b] EXCEPT !.calm = FALSE]
  <2> DEFINE x == actor[b]
             y == [actor[b] EXCEPT !.calm = FALSE]
  <2>1. ActorOK(x) /\ x \in Busy BY <1>3 DEF SessionInv, ActorOK
  <2>2. /\ y \in Busy /\ y.phase = x.phase /\ y.tok = x.tok /\ y.server = x.server
        /\ y.user = x.user /\ y.backend = x.backend
    BY <2>1 DEF Busy
  <2>3. \A z : ActorOK(z) => ActorOK(z)' BY ActorsStayOK
  <2>4. ActorOK(y) BY <1>3, <2>1, <2>2 DEF ActorOK
  <2> HIDE DEF y
  <2>5. actor'[b] = y BY <1>3 DEF y
  <2> QED BY <2>2, <2>3, <2>4, <2>5 DEF ActorOK
<1> QED BY <1>1, <1>2, <1>3 DEF OthersStay

(* What is stored stays as good as it was while it does not change.        *)
LEMMA StoredStays ==
  ASSUME SessionInv, TokensGrow, UNCHANGED <<file, ring>>
  PROVE  /\ TokenOK' /\ FileOK'
         /\ \A w \in Web : ring[w] # 0 => token'[ring[w]].owner = token[ring[w]].owner
<1>1. TokenOK'
  BY DEF SessionInv, SessionTypes, TokenOK, TokensGrow
<1>2. FileOK'
  <2>1. CASE file = NoConfig BY <2>1 DEF FileOK
  <2>2. CASE file # NoConfig
    <3>1. file \in File1 BY <2>2 DEF SessionInv, FileOK
    <3>2. file.token # 0 => file.token \in Token /\ token[file.token].at # "none"
      BY <2>2, <3>1 DEF SessionInv, FileOK, File1, TokenOK
    <3> QED BY <2>2, <3>1, <3>2 DEF SessionInv, FileOK, TokensGrow
  <2> QED BY <2>1, <2>2
<1>3. \A w \in Web : ring[w] # 0 => token'[ring[w]].owner = token[ring[w]].owner
  BY DEF SessionInv, SessionTypes, TokenOK, TokensGrow
<1> QED BY <1>1, <1>2, <1>3

(* What is stored stays as it is, and the command that goes on is not the  *)
(* one between the two halves, or the halves have parted.                  *)
LEMMA MoveKeeps ==
  ASSUME SessionInv, TokensGrow, NEW a \in Actor, OthersStay(a), ActorOK(actor[a])',
         UNCHANGED <<file, ring>>, past' \in Past1,
         past.mixed => past'.mixed,
         actor'[a].phase # "config", a \in Saving => past'.mixed
  PROVE  SessionInv'
<1>1. SessionTypes' BY DEF SessionInv, SessionTypes, TokensGrow, OthersStay
<1>2. \A b \in Actor : ActorOK(actor[b])' BY OthersAreOK
<1>3. TokenOK' /\ FileOK' BY StoredStays
<1>5. HalvesOK'
  <2> SUFFICES ASSUME ~past'.mixed PROVE HalvesOK' BY DEF HalvesOK
  <2>1. a \notin Saving /\ ~past.mixed OBVIOUS
  <2>2. Saving' = Saving
    BY <2>1, OthersAreOK DEF Saving
  <2>3. \A b \in Saving : /\ actor'[b].tok = actor[b].tok /\ actor'[b].server = actor[b].server
                          /\ actor'[b].backend = actor[b].backend
    BY <2>1, OthersAreOK DEF Saving
  <2>4. \A w \in Web : ring[w] # 0 => token'[ring[w]].owner = token[ring[w]].owner
    BY StoredStays
  <2>5. file # NoConfig => file.server \in Web BY DEF SessionInv, FileOK, File1
  <2> QED BY <2>1, <2>2, <2>3, <2>4, <2>5 DEF SessionInv, HalvesOK
<1> QED BY <1>1, <1>2, <1>3, <1>5 DEF SessionInv

LEMMA DoesMoves ==
  ASSUME SessionInv, NEW a \in Actor, NEW x \in Busy \cup {Rest1}, Does(a, x)
  PROVE  OthersStay(a) /\ actor'[a] = x
BY DEF Does, OthersStay, SessionInv, SessionTypes

LEMMA TokensStay ==
  ASSUME SessionInv, UNCHANGED token
  PROVE  TokensGrow
BY DEF SessionInv, SessionTypes, TokenOK, TokensGrow

LEMMA FaultKeeps ==
  ASSUME SessionInv, Fault \/ UNCHANGED past
  PROVE  past' \in Past1 /\ past'.mixed = past.mixed /\ past'.left = past.left
<1>1. past \in Past1 BY DEF SessionInv, SessionTypes
<1> QED BY <1>1 DEF Fault, Past1

(* A command that goes on with what it holds.                              *)
LEMMA GoesOn ==
  ASSUME SessionInv, TokensGrow, NEW a \in Actor, NEW ph, Goto(a, ph),
         UNCHANGED <<file, ring>>, Fault \/ UNCHANGED past, actor[a].phase # "config",
         actor[a] # Rest1,
         \/ ph = "idle"
         \/ ph \in {"mint", "keyring", "me", "revoke", "clear", "remove", "wipe"},
         ph = "mint" => actor[a].phase = "claim",
         ph = "keyring" => actor[a].phase = "verify" /\ token'[actor[a].tok].met
  PROVE  SessionInv'
<1> DEFINE y == [actor[a] EXCEPT !.phase = ph]
<1>1. actor[a] \in Busy /\ ActorOK(actor[a])
  BY DEF SessionInv, ActorOK
<1>2. CASE ph = "idle"
  <2>1. Does(a, Rest1) BY <1>2 DEF Goto
  <2>2. OthersStay(a) /\ actor'[a] = Rest1 BY <2>1, DoesMoves
  <2>3. ActorOK(actor[a])' /\ actor'[a].phase # "config" BY <2>2 DEF ActorOK, Rest1
  <2> QED BY <2>2, <2>3, MoveKeeps, FaultKeeps DEF Saving
<1>3. CASE ph # "idle"
  <2>1. Does(a, y) BY <1>3 DEF Goto
  <2>2. /\ y \in Busy /\ y.phase = ph /\ y.tok = actor[a].tok
        /\ y.server = actor[a].server /\ y.user = actor[a].user
    BY <1>1, <1>3 DEF Busy
  <2> HIDE DEF y
  <2>3. OthersStay(a) /\ actor'[a] = y BY <2>1, <2>2, DoesMoves
  <2>4. ActorOK(actor[a])'
    <3>1. \A z : ActorOK(z) => ActorOK(z)' BY ActorsStayOK
    <3>2. CASE ph = "keyring"
      <4>1. ActorOK(actor[a]) /\ actor[a].phase = "verify" /\ actor[a] # Rest1
        BY <1>1, <3>2
      <4>2. /\ actor[a].tok \in Token /\ actor[a].server \in Web /\ actor[a].user \in Person
            /\ token[actor[a].tok].at # "none"
            /\ token[actor[a].tok].server = actor[a].server
            /\ token[actor[a].tok].owner = actor[a].user
        BY <4>1 DEF ActorOK
      <4>3. /\ token'[actor[a].tok].at # "none"
            /\ token'[actor[a].tok].server = actor[a].server
            /\ token'[actor[a].tok].owner = actor[a].user
        BY <4>2 DEF TokensGrow
      <4> QED BY <2>2, <2>3, <3>2, <4>2, <4>3 DEF ActorOK
    <3>3. CASE ph = "mint"
      <4>1. actor[a].server \in Web /\ actor[a].user \in Person
        BY <1>1, <3>3 DEF ActorOK
      <4> QED BY <2>2, <2>3, <3>3, <4>1 DEF ActorOK
    <3>4. CASE ph \in {"me", "revoke", "clear", "remove", "wipe"}
      BY <2>2, <2>3, <3>4 DEF ActorOK
    <3> QED BY <1>3, <3>2, <3>3, <3>4
  <2>5. actor'[a].phase # "config" BY <2>2, <2>3
  <2> QED BY <2>3, <2>4, <2>5, MoveKeeps, FaultKeeps DEF Saving
<1> QED BY <1>2, <1>3

(* A sign-in until it has its token met.                                   *)
LEMMA SignInsKeep ==
  ASSUME SessionInv, NEW a \in Actor,
         StartSignIn(a) \/ ClaimPair(a) \/ Mint(a) \/ Verify(a)
  PROVE  SessionInv'
<1>0. actor[a] \in Busy \cup {Rest1} /\ ActorOK(actor[a])
  BY DEF SessionInv, SessionTypes
<1>1. CASE StartSignIn(a)
  <2>1. PICK k \in SignIn, w \in Web, u \in Person :
          Does(a, [NewActor EXCEPT !.kind = k, !.phase = IF k = "pair" THEN "claim" ELSE "mint",
                                   !.server = w, !.user = u])
    BY <1>1 DEF StartSignIn
  <2> DEFINE y == [NewActor EXCEPT !.kind = k, !.phase = IF k = "pair" THEN "claim" ELSE "mint",
                                   !.server = w, !.user = u]
  <2>2. /\ y \in Busy /\ y.phase \in {"claim", "mint"} /\ y.server = w /\ y.user = u
    BY DEF NewActor, Busy, SignIn
  <2> HIDE DEF y
  <2>3. OthersStay(a) /\ actor'[a] = y BY <2>1, <2>2, DoesMoves DEF y
  <2>4. TokensGrow /\ UNCHANGED <<file, ring, past>> /\ a \notin Saving
    BY <1>1, TokensStay DEF StartSignIn, Saving
  <2>5. ActorOK(actor[a])' /\ actor'[a].phase # "config"
    BY <2>2, <2>3 DEF ActorOK
  <2> QED BY <2>3, <2>4, <2>5, MoveKeeps, FaultKeeps
<1>2. CASE ClaimPair(a)
  BY <1>2, GoesOn, TokensStay DEF ClaimPair, Is, Rest1
<1>3. CASE Mint(a)
  <2> DEFINE t == Minted(a)
  <2>1. t \in Token /\ token[t].at = "none"
    BY <1>3 DEF Mint, Minted, Unminted1
  <2>2. actor[a].phase = "mint" /\ actor[a] # Rest1 /\ actor[a].server \in Web
        /\ actor[a].user \in Person /\ actor[a] \in Busy
    BY <1>0, <1>3 DEF Mint, Is, Rest1, ActorOK
  <2>3. token' = [token EXCEPT ![t] = [at |-> "good", server |-> actor[a].server,
                                       owner |-> actor[a].user, met |-> FALSE]]
    BY <1>3 DEF Mint, MintedNow
  <2>4. UNCHANGED <<file, ring>> /\ (Fault \/ UNCHANGED past) BY <1>3 DEF Mint
  <2> HIDE DEF t
  <2>5. TokensGrow
    BY <2>1, <2>2, <2>3 DEF TokensGrow, SessionInv, SessionTypes, TokenOK, Token1
  <2>6. CASE Does(a, Verifying(a))
    <3> DEFINE y == [actor[a] EXCEPT !.phase = "verify", !.tok = t]
    <3>1. /\ y \in Busy /\ y.phase = "verify" /\ y.tok = t
          /\ y.server = actor[a].server /\ y.user = actor[a].user
      BY <2>1, <2>2 DEF Busy
    <3>2. Does(a, y) BY <2>6 DEF Verifying, t
    <3> HIDE DEF y
    <3>3. OthersStay(a) /\ actor'[a] = y BY <3>1, <3>2, DoesMoves
    <3>4. token'[t].at = "good" /\ token'[t].server = actor[a].server
          /\ token'[t].owner = actor[a].user
      BY <2>1, <2>3 DEF SessionInv, SessionTypes
    <3>5. ActorOK(actor[a])' /\ actor'[a].phase # "config"
      BY <2>1, <2>2, <3>1, <3>3, <3>4 DEF ActorOK
    <3> QED BY <2>2, <2>4, <2>5, <3>3, <3>5, MoveKeeps, FaultKeeps DEF Saving
  <2>7. CASE UNCHANGED actor
    <3>1. OthersStay(a) BY <2>7 DEF OthersStay, SessionInv, SessionTypes
    <3>2. \A z : ActorOK(z) => ActorOK(z)' BY <2>5, ActorsStayOK
    <3>3. ActorOK(actor[a])' /\ actor'[a].phase # "config"
      BY <1>0, <2>2, <2>7, <3>2 DEF ActorOK
    <3> QED BY <2>2, <2>4, <2>5, <3>1, <3>3, MoveKeeps, FaultKeeps DEF Saving
  <2>8. CASE Goto(a, "idle")
    BY <2>2, <2>4, <2>5, <2>8, GoesOn
  <2> QED BY <1>3, <2>6, <2>7, <2>8 DEF Mint
<1>4. CASE Verify(a)
  <2> DEFINE t == actor[a].tok
  <2>1. actor[a].phase = "verify" /\ actor[a] # Rest1 /\ t \in Token
    BY <1>0, <1>4 DEF Verify, Is, Rest1, ActorOK
  <2>2. UNCHANGED <<file, ring>> /\ (Fault \/ UNCHANGED past) BY <1>4 DEF Verify
  <2>3. CASE UNCHANGED token /\ Goto(a, "idle")
    BY <2>1, <2>2, <2>3, TokensStay, GoesOn
  <2>4. CASE Alive(t) /\ token' = [token EXCEPT ![t].met = TRUE] /\ Goto(a, "keyring")
    <3> HIDE DEF t
    <3> DEFINE r == [token[t] EXCEPT !.met = TRUE]
    <3>1. token[t] \in Token1 /\ token[t].at \in {"good", "wipe"}
      BY <2>1, <2>4 DEF SessionInv, SessionTypes, Alive
    <3>2. /\ r \in Token1 /\ r.at = token[t].at /\ r.met /\ r.server = token[t].server
          /\ r.owner = token[t].owner
      BY <3>1 DEF Token1
    <3>3. token' = [token EXCEPT ![t] = r] BY <2>4
    <3> HIDE DEF r
    <3>4. TokensGrow /\ token'[t].met
      BY <2>1, <3>1, <3>2, <3>3 DEF TokensGrow, SessionInv, SessionTypes, TokenOK
    <3> QED BY <2>1, <2>2, <2>4, <3>4, GoesOn DEF t
  <2> QED BY <1>4, <2>3, <2>4 DEF Verify
<1> QED BY <1>1, <1>2, <1>3, <1>4

(* A check or a logout until it clears, and the death of any command.      *)
LEMMA ChecksKeep ==
  ASSUME SessionInv, NEW a \in Actor,
         LoadState(a) \/ LoadToken(a) \/ Me(a) \/ Logout(a) \/ Die(a)
  PROVE  SessionInv'
<1>0. actor[a] \in Busy \cup {Rest1} /\ ActorOK(actor[a])
  BY DEF SessionInv, SessionTypes
<1>1. CASE LoadState(a)
  <2>1. PICK k \in Loads :
          Does(a, [NewActor EXCEPT !.kind = k, !.server = file.server, !.backend = file.backend,
                                   !.tok = file.token,
                                   !.phase = IF file # NoConfig THEN "token" ELSE "clear"])
    BY <1>1 DEF LoadState
  <2> DEFINE y == [NewActor EXCEPT !.kind = k, !.server = file.server, !.backend = file.backend,
                                   !.tok = file.token,
                                   !.phase = IF file # NoConfig THEN "token" ELSE "clear"]
  <2>2. /\ file.server \in Web \cup {"none"} /\ file.backend \in {"none", "keyring", "file"}
        /\ file.token \in Token \cup {0}
    BY DEF SessionInv, FileOK, File1, NoConfig
  <2>3. /\ y \in Busy /\ y.phase \in {"token", "clear"} /\ y.server = file.server
        /\ y.phase = "token" => file # NoConfig
    BY <2>2 DEF NewActor, Busy, Checks, Loads
  <2>7. file # NoConfig => file.server \in Web BY DEF SessionInv, FileOK, File1
  <2> HIDE DEF y
  <2>4. OthersStay(a) /\ actor'[a] = y BY <2>1, <2>3, DoesMoves DEF y
  <2>5. TokensGrow /\ UNCHANGED <<file, ring, past>> /\ a \notin Saving
    BY <1>1, TokensStay DEF LoadState, Saving
  <2>6. ActorOK(actor[a])' /\ actor'[a].phase # "config"
    BY <2>3, <2>4, <2>7 DEF ActorOK
  <2> QED BY <2>4, <2>5, <2>6, MoveKeeps, FaultKeeps
<1>2. CASE LoadToken(a)
  <2> DEFINE t == IF actor[a].backend = "file" THEN actor[a].tok ELSE ring[actor[a].server]
  <2>1. actor[a].phase = "token" /\ actor[a] # Rest1 /\ actor[a] \in Busy
    BY <1>0, <1>2 DEF LoadToken, Is, Rest1
  <2>2. UNCHANGED <<file, ring, token, past>> BY <1>2 DEF LoadToken
  <2>3. CASE t = 0
    <3>1. Goto(a, "clear") \/ Goto(a, "idle") BY <1>2, <2>3 DEF LoadToken
    <3> QED BY <2>1, <2>2, <3>1, TokensStay, GoesOn
  <2>4. CASE t # 0
    <3> DEFINE ph == IF actor[a].kind = "check" THEN "me" ELSE "revoke"
               y == [actor[a] EXCEPT !.tok = t, !.phase = ph]
    <3>1. Does(a, y) BY <1>2, <2>4 DEF LoadToken
    <3>2. t \in Token
      <4>1. actor[a].tok \in Token \cup {0} BY <2>1 DEF Busy
      <4>2. actor[a].server \in Web => ring[actor[a].server] \in Token \cup {0}
        BY DEF SessionInv, SessionTypes
      <4>3. actor[a].server \in Web \/ actor[a].backend = "file"
        BY <1>0, <2>1 DEF ActorOK
      <4> QED BY <2>4, <4>1, <4>2, <4>3
    <3> HIDE DEF t
    <3>3. y \in Busy /\ y.phase \in {"me", "revoke"} BY <2>1, <3>2 DEF Busy
    <3> HIDE DEF y
    <3>4. OthersStay(a) /\ actor'[a] = y BY <3>1, <3>3, DoesMoves
    <3>5. ActorOK(actor[a])' /\ actor'[a].phase # "config" BY <3>3, <3>4 DEF ActorOK
    <3> QED BY <2>1, <2>2, <3>4, <3>5, TokensStay, MoveKeeps, FaultKeeps DEF Saving
  <2> QED BY <2>3, <2>4
<1>3. CASE Me(a)
  <2>1. actor[a].phase = "me" /\ actor[a] # Rest1 /\ actor[a] \in Busy
    BY <1>0, <1>3 DEF Me, Is, Rest1
  <2>2. UNCHANGED <<file, ring, token>> /\ (Fault \/ UNCHANGED past) BY <1>3 DEF Me
  <2>3. CASE Goto(a, "idle") BY <2>1, <2>2, <2>3, TokensStay, GoesOn
  <2>4. ASSUME NEW y \in AfterMe(actor[a]), Does(a, y) PROVE SessionInv'
    <3>1. y = Rest1 \/ (y \in Busy /\ y.phase = "clear")
      BY <2>1, <2>4 DEF AfterMe, Clears, Busy, Checks, Probes
    <3>2. OthersStay(a) /\ actor'[a] = y BY <2>4, <3>1, DoesMoves
    <3>3. ActorOK(actor[a])' /\ actor'[a].phase # "config"
      BY <3>1, <3>2 DEF ActorOK, Rest1
    <3> QED BY <2>1, <2>2, <3>2, <3>3, TokensStay, MoveKeeps, FaultKeeps DEF Saving
  <2> QED BY <1>3, <2>3, <2>4 DEF Me
<1>4. CASE Logout(a)
  <2> DEFINE t == actor[a].tok
  <2>1. actor[a].phase = "revoke" /\ actor[a] # Rest1 BY <1>4 DEF Logout, Is, Rest1
  <2>2. UNCHANGED <<file, ring>> /\ (Fault \/ UNCHANGED past) /\ Goto(a, "clear")
    BY <1>4 DEF Logout
  <2> HIDE DEF t
  <2>3. token' = [token EXCEPT ![t].at = "revoked"] => TokensGrow
    <3> SUFFICES ASSUME token' = [token EXCEPT ![t].at = "revoked"] PROVE TokensGrow
      OBVIOUS
    <3> DEFINE r == [token[t] EXCEPT !.at = "revoked"]
    <3>1. token' = [token EXCEPT ![t] = r] OBVIOUS
    <3>2. t \in Token => /\ r \in Token1 /\ r.at = "revoked" /\ r.met = token[t].met
                         /\ r.server = token[t].server /\ r.owner = token[t].owner
      BY DEF SessionInv, SessionTypes, Token1
    <3> HIDE DEF r
    <3>3. CASE t \in Token
      BY <3>1, <3>2, <3>3 DEF TokensGrow, SessionInv, SessionTypes, TokenOK
    <3>4. CASE t \notin Token
      <4>1. UNCHANGED token BY <3>1, <3>4 DEF SessionInv, SessionTypes
      <4> QED BY <4>1, TokensStay
    <3> QED BY <3>3, <3>4
  <2>4. TokensGrow BY <1>4, <2>3, TokensStay DEF Logout, t
  <2> QED BY <2>1, <2>2, <2>4, GoesOn
<1>5. CASE Die(a)
  <2>1. /\ Does(a, Rest1) /\ UNCHANGED <<file, ring, token>>
        /\ past' = [past EXCEPT !.faults = @ + 1, !.mixed = @ \/ a \in Saving]
    BY <1>5 DEF Die, Goto
  <2>2. OthersStay(a) /\ actor'[a] = Rest1 BY <2>1, DoesMoves
  <2>3. ActorOK(actor[a])' /\ actor'[a].phase # "config" BY <2>2 DEF ActorOK, Rest1
  <2>4. /\ past' \in Past1 /\ (past.mixed => past'.mixed)
        /\ a \in Saving => past'.mixed
    <3>1. past \in Past1 BY DEF SessionInv, SessionTypes
    <3> DEFINE m == past.mixed \/ a \in Saving
    <3>2. past' = [past EXCEPT !.faults = @ + 1, !.mixed = m] BY <2>1
    <3>3. m \in BOOLEAN OBVIOUS
    <3>4. past'.mixed = m BY <3>1, <3>2 DEF Past1
    <3>5. past' \in Past1
      <4> HIDE DEF m
      <4> DEFINE n == past.faults + 1
      <4>1. n \in Nat BY <3>1 DEF Past1
      <4>2. past' = [[past EXCEPT !.faults = n] EXCEPT !.mixed = m] BY <3>1, <3>2 DEF Past1
      <4> HIDE DEF n
      <4> QED BY <3>1, <3>3, <4>1, <4>2 DEF Past1
    <3> QED BY <3>4, <3>5
  <2> QED BY <2>1, <2>2, <2>3, <2>4, TokensStay, MoveKeeps
<1> QED BY <1>1, <1>2, <1>3, <1>4, <1>5

LEMMA StoresMoves ==
  ASSUME SessionInv, NEW a \in Actor, NEW x \in Busy \cup {Rest1}, Stores(a, x)
  PROVE  OthersStay(a) /\ actor'[a] = x
<1>1. \A b \in Actor : actor[b] \in Busy \cup {Rest1} BY DEF SessionInv, SessionTypes
<1>2. ASSUME NEW b \in Actor, b # a
      PROVE  /\ actor'[b] \in Busy \cup {Rest1}
             /\ \/ actor'[b] = actor[b]
                \/ actor[b] # Rest1 /\ actor'[b] = [actor[b] EXCEPT !.calm = FALSE]
  <2>1. CASE actor[b].phase # "idle" /\ actor[b].kind \in Checks
    <3>1. actor'[b] = [actor[b] EXCEPT !.calm = FALSE] BY <1>2, <2>1 DEF Stores
    <3>2. actor[b] # Rest1 /\ actor[b] \in Busy BY <1>1, <2>1 DEF Rest1
    <3>3. [actor[b] EXCEPT !.calm = FALSE] \in Busy BY <3>2 DEF Busy
    <3> QED BY <3>1, <3>2, <3>3
  <2>2. CASE ~(actor[b].phase # "idle" /\ actor[b].kind \in Checks)
    <3>1. actor'[b] = actor[b] BY <1>2, <2>2 DEF Stores
    <3> QED BY <1>1, <3>1
  <2> QED BY <2>1, <2>2
<1>3. actor'[a] = x BY DEF Stores
<1>4. actor' = [b \in Actor |-> actor'[b]] BY DEF Stores
<1> QED BY <1>2, <1>3, <1>4 DEF OthersStay

(* What a clearing notes: the entry it leaves while the file goes.         *)
LEMMA Leaves ==
  ASSUME SessionInv, NEW a \in Actor, ClearToken(a) \/ ClearState(a) \/ WipeLocal(a)
  PROVE  /\ past \in Past1 /\ past' \in Past1 /\ past'.mixed = past.mixed
         /\ past'.left \in {past.left, Parted} /\ past.left \subseteq past'.left
         /\ file' \in {file, NoConfig} /\ (file' # file => past'.left = Parted)
         /\ ring' # ring => ClearToken(a) /\ file # NoConfig
                           /\ ring' = [ring EXCEPT ![file.server] = 0]
<1>1. past \in Past1 BY DEF SessionInv, SessionTypes
<1>2. Parted \in SUBSET Web /\ past.left \subseteq Parted BY <1>1 DEF Parted, Past1
<1> DEFINE P == Parted
<1> HIDE DEF P
<1>3. P \in SUBSET Web /\ past.left \subseteq P BY <1>2 DEF P
<1>4. /\ \/ UNCHANGED past
         \/ past' = [past EXCEPT !.left = P]
         \/ past' = [past EXCEPT !.faults = @ + 1, !.left = P]
         \/ past' = [past EXCEPT !.faults = @ + 1] /\ UNCHANGED file
      /\ file' \in {file, NoConfig}
      /\ file' # file => \/ past' = [past EXCEPT !.left = P]
                         \/ past' = [past EXCEPT !.faults = @ + 1, !.left = P]
  BY DEF ClearToken, ClearState, WipeLocal, Fault, P
<1>5. /\ past' \in Past1 /\ past'.mixed = past.mixed
      /\ past'.left \in {past.left, P} /\ past.left \subseteq past'.left
      /\ file' # file => past'.left = P
  <2> DEFINE n == past.faults + 1
  <2>1. n \in Nat BY <1>1 DEF Past1
  <2>2. \/ UNCHANGED past
        \/ past' = [past EXCEPT !.left = P]
        \/ past' = [past EXCEPT !.faults = n, !.left = P]
        \/ past' = [past EXCEPT !.faults = n] /\ UNCHANGED file
    BY <1>4
  <2>3. file' # file => \/ past' = [past EXCEPT !.left = P]
                        \/ past' = [past EXCEPT !.faults = n, !.left = P]
    BY <1>4
  <2> HIDE DEF n
  <2>4. CASE past' = [past EXCEPT !.left = P]
    BY <1>1, <1>3, <2>4 DEF Past1
  <2>5. CASE past' = [past EXCEPT !.faults = n, !.left = P]
    BY <1>1, <1>3, <2>1, <2>5 DEF Past1
  <2>6. CASE UNCHANGED past BY <1>1, <2>3, <2>4, <2>5, <2>6
  <2>7. CASE past' = [past EXCEPT !.faults = n] /\ UNCHANGED file
    BY <1>1, <2>1, <2>7 DEF Past1
  <2> QED BY <2>2, <2>4, <2>5, <2>6, <2>7
<1>6. ring' # ring => ClearToken(a) /\ file # NoConfig
                    /\ ring' = [ring EXCEPT ![file.server] = 0]
  BY DEF ClearToken, ClearState, WipeLocal
<1> QED BY <1>1, <1>4, <1>5, <1>6 DEF P

(* The two halves of a clearing, and the wipe.                             *)
LEMMA ClearingKeeps ==
  ASSUME SessionInv, NEW a \in Actor, ClearToken(a) \/ ClearState(a) \/ WipeLocal(a)
  PROVE  SessionInv'
<1>0. /\ actor[a] \in Busy /\ actor[a] # Rest1 /\ ActorOK(actor[a]) /\ a \notin Saving
      /\ UNCHANGED token /\ past \in Past1
  BY DEF SessionInv, SessionTypes, ClearToken, ClearState, WipeLocal, Is, Rest1, Saving
<1>1. TokensGrow BY <1>0, TokensStay
<1>2. PICK ph \in {"idle", "remove", "wipe"} : Goto(a, ph)
  BY DEF ClearToken, ClearState, WipeLocal
<1> DEFINE y == IF ph = "idle" THEN Rest1 ELSE [actor[a] EXCEPT !.phase = ph]
<1>3. y \in Busy \cup {Rest1} /\ (y = Rest1 \/ (y \in Busy /\ y.phase \in {"remove", "wipe"}))
  BY <1>0 DEF Busy
<1> HIDE DEF y
<1>4. OthersStay(a) /\ actor'[a] = y BY <1>2, <1>3, DoesMoves DEF Goto, y
<1>5. ActorOK(actor[a])' /\ actor'[a].phase # "config"
  BY <1>3, <1>4 DEF ActorOK, Rest1
<1>6. \A b \in Actor : ActorOK(actor[b])' BY <1>1, <1>4, <1>5, OthersAreOK
<1>7. /\ Saving' = Saving
      /\ \A b \in Saving : /\ actor'[b].tok = actor[b].tok
                           /\ actor'[b].server = actor[b].server
                           /\ actor'[b].backend = actor[b].backend
  BY <1>0, <1>1, <1>4, <1>5, OthersAreOK DEF Saving
<1>8. past' \in Past1 /\ past'.mixed = past.mixed /\ file' \in {file, NoConfig} BY Leaves
<1>9. ring' \in [Web -> Token \cup {0}] /\ \A w \in Web : ring'[w] \in {0, ring[w]}
  BY Leaves DEF SessionInv, SessionTypes
<1>10. SessionTypes' BY <1>0, <1>4, <1>8, <1>9 DEF SessionInv, SessionTypes, OthersStay
<1>11. FileOK'
  <2>1. CASE file' = NoConfig BY <2>1 DEF FileOK
  <2>2. CASE file' = file BY <1>0, <2>2 DEF SessionInv, FileOK
  <2> QED BY <1>8, <2>1, <2>2
<1>12. TokenOK' BY <1>0, <1>9 DEF SessionInv, TokenOK
<1>13. \A b \in Saving : actor[b].server \in Web
  BY DEF Saving, SessionInv, ActorOK, Rest1
<1>14. file # NoConfig => file.server \in Web BY DEF SessionInv, FileOK, File1
<1>15. HalvesOK'
  <2> SUFFICES ASSUME ~past.mixed PROVE HalvesOK' BY <1>8 DEF HalvesOK
  <2>1. /\ \A b, c \in Saving : b = c
        /\ \A b \in Saving : actor[b].backend = "keyring"
                              => ring'[actor[b].server] \in {0, actor[b].tok}
    BY <1>9, <1>13 DEF SessionInv, HalvesOK
  <2>2. CASE file' = NoConfig BY <1>7, <2>1, <2>2 DEF HalvesOK
  <2>3. CASE file' = file BY <1>0, <1>7, <1>9, <1>14, <2>1, <2>3 DEF SessionInv, HalvesOK
  <2> QED BY <1>8, <2>2, <2>3
<1> QED BY <1>6, <1>10, <1>11, <1>12, <1>15 DEF SessionInv

(* The two halves of a sign-in's Save, and its rollback.                   *)
LEMMA SavingKeeps ==
  ASSUME SessionInv, NEW a \in Actor, SaveToken(a) \/ WriteState(a) \/ RollBack(a)
  PROVE  SessionInv'
<1> DEFINE x == actor[a]
<1>0. /\ x \in Busy /\ x # Rest1 /\ ActorOK(x) /\ x.phase \in {"keyring", "config"}
      /\ UNCHANGED token /\ past \in Past1
  <2>1. x.phase \in {"keyring", "config"} /\ UNCHANGED token
    BY DEF SaveToken, WriteState, RollBack, Is
  <2>2. x \in Busy \cup {Rest1} /\ ActorOK(x) /\ past \in Past1
    BY DEF SessionInv, SessionTypes
  <2> HIDE DEF x
  <2>3. x # Rest1 BY <2>1 DEF Rest1
  <2> QED BY <2>1, <2>2, <2>3
<1>1. /\ x.server \in Web /\ x.user \in Person /\ x.tok \in Token
      /\ token[x.tok].at # "none" /\ token[x.tok].met
      /\ token[x.tok].server = x.server /\ token[x.tok].owner = x.user
      /\ x.phase = "config" => x.backend \in {"keyring", "file"}
  BY <1>0 DEF ActorOK
<1>2. TokensGrow BY <1>0, TokensStay
<1>3. CASE SaveToken(a)
  <2>1. PICK stored \in BOOLEAN :
          /\ ring' = IF stored THEN [ring EXCEPT ![x.server] = x.tok] ELSE ring
          /\ Stores(a, [x EXCEPT !.phase = "config",
                                 !.backend = IF stored THEN "keyring" ELSE "file"])
          /\ past' = [past EXCEPT !.mixed = @ \/ Saving # {},
                                  !.faults = @ + (IF stored THEN 0 ELSE 1)]
    BY <1>3 DEF SaveToken
  <2>2. UNCHANGED file BY <1>3 DEF SaveToken
  <2> DEFINE y == [x EXCEPT !.phase = "config",
                            !.backend = IF stored THEN "keyring" ELSE "file"]
  <2>3. /\ y \in Busy /\ y.phase = "config" /\ y.tok = x.tok /\ y.server = x.server
        /\ y.user = x.user /\ y.backend = IF stored THEN "keyring" ELSE "file"
    BY <1>0 DEF Busy
  <2> HIDE DEF y
  <2>4. OthersStay(a) /\ actor'[a] = y BY <2>1, <2>3, StoresMoves DEF y
  <2>5. ActorOK(actor[a])' BY <1>0, <1>1, <2>3, <2>4 DEF ActorOK
  <2>6. \A b \in Actor : ActorOK(actor[b])' BY <1>2, <2>4, <2>5, OthersAreOK
  <2>7. /\ past' \in Past1 /\ (past.mixed => past'.mixed)
        /\ Saving # {} => past'.mixed
    <3> DEFINE m == past.mixed \/ Saving # {}
               n == past.faults + (IF stored THEN 0 ELSE 1)
    <3>1. past' = [past EXCEPT !.mixed = m, !.faults = n] BY <2>1
    <3>2. m \in BOOLEAN /\ n \in Nat BY <1>0 DEF Past1
    <3> HIDE DEF m, n
    <3>3. past'.mixed = m BY <1>0, <3>1 DEF Past1
    <3>4. past' \in Past1 BY <1>0, <3>1, <3>2 DEF Past1
    <3> QED BY <3>3, <3>4 DEF m
  <2>8. /\ ring' \in [Web -> Token \cup {0}]
        /\ \A w \in Web : ring'[w] = ring[w] \/ (stored /\ w = x.server /\ ring'[w] = x.tok)
    BY <1>1, <2>1 DEF SessionInv, SessionTypes
  <2>9. SessionTypes' BY <1>0, <2>4, <2>7, <2>8 DEF SessionInv, SessionTypes, OthersStay
  <2>10. FileOK' BY <1>0, <2>2 DEF SessionInv, FileOK
  <2>11. TokenOK' BY <1>0, <1>1, <2>8 DEF SessionInv, TokenOK
  <2>12. HalvesOK'
    <3> SUFFICES ASSUME ~past'.mixed PROVE HalvesOK' BY DEF HalvesOK
    <3>1. ~past.mixed /\ Saving = {} BY <2>7
    <3>2. Saving' = {a}
      <4>1. \A b \in Actor : b # a => actor'[b].phase # "config"
        BY <1>2, <2>4, <2>5, <3>1, OthersAreOK DEF Saving
      <4> QED BY <2>3, <2>4, <4>1 DEF Saving
    <3>3. actor'[a].backend = "keyring" => ring'[x.server] = x.tok
      BY <1>1, <2>1, <2>3, <2>4 DEF SessionInv, SessionTypes
    <3>4. actor'[a].server = x.server /\ actor'[a].tok = x.tok BY <2>3, <2>4
    <3>5. file # NoConfig => file.server \in Web BY DEF SessionInv, FileOK, File1
    <3>6. ASSUME file # NoConfig, file.backend = "keyring", ring'[file.server] # 0
          PROVE  \/ token[ring'[file.server]].owner = file.user
                 \/ actor'[a].backend = "keyring" /\ actor'[a].server = file.server
      <4>1. CASE ring'[file.server] = ring[file.server]
        BY <3>1, <3>6, <4>1 DEF SessionInv, HalvesOK
      <4>2. CASE stored /\ file.server = x.server
        BY <2>3, <2>4, <4>2
      <4> QED BY <2>8, <3>5, <3>6, <4>1, <4>2
    <3> QED BY <1>0, <2>2, <3>2, <3>3, <3>4, <3>6 DEF HalvesOK
  <2> QED BY <2>6, <2>9, <2>10, <2>11, <2>12 DEF SessionInv
<1>4. CASE WriteState(a)
  <2>1. /\ x.phase = "config" /\ file' = ConfigOf(x) /\ Stores(a, Rest1)
        /\ UNCHANGED <<ring, past>>
    BY <1>4 DEF WriteState, Is
  <2>2. OthersStay(a) /\ actor'[a] = Rest1 BY <2>1, StoresMoves
  <2>3. ActorOK(actor[a])' BY <2>2 DEF ActorOK
  <2>4. \A b \in Actor : ActorOK(actor[b])' BY <1>2, <2>2, <2>3, OthersAreOK
  <2>5. /\ file' \in File1 /\ file'.server = x.server /\ file'.user = x.user
        /\ file'.backend = x.backend
        /\ file'.token = IF x.backend = "file" THEN x.tok ELSE 0
    BY <1>1, <2>1 DEF ConfigOf, File1
  <2>6. SessionTypes' BY <1>0, <2>1, <2>2 DEF SessionInv, SessionTypes, OthersStay
  <2>7. FileOK' BY <1>0, <1>1, <2>5 DEF FileOK
  <2>8. TokenOK' BY <1>0, <2>1 DEF SessionInv, TokenOK
  <2>9. HalvesOK'
    <3> SUFFICES ASSUME ~past.mixed PROVE HalvesOK' BY <2>1 DEF HalvesOK
    <3>1. Saving = {a} BY <2>1 DEF SessionInv, HalvesOK, Saving
    <3>2. Saving' = {}
      BY <1>2, <2>2, <2>3, <3>1, OthersAreOK DEF Saving, Rest1
    <3>3. x.backend = "keyring" => ring[x.server] \in {0, x.tok}
      BY <3>1 DEF SessionInv, HalvesOK
    <3> QED BY <1>0, <1>1, <2>1, <2>5, <3>2, <3>3 DEF HalvesOK
  <2> QED BY <2>4, <2>6, <2>7, <2>8, <2>9 DEF SessionInv
<1>5. CASE RollBack(a)
  <2>1. PICK kept \in BOOLEAN :
          /\ x.phase = "config" /\ Does(a, Rest1) /\ UNCHANGED file
          /\ ring' = IF kept \/ x.backend = "file" THEN ring ELSE [ring EXCEPT ![x.server] = 0]
          /\ past' = [past EXCEPT !.faults = @ + 1, !.mixed = @ \/ kept]
    BY <1>5 DEF RollBack, Is, Goto
  <2>2. OthersStay(a) /\ actor'[a] = Rest1 BY <2>1, DoesMoves
  <2>3. ActorOK(actor[a])' BY <2>2 DEF ActorOK
  <2>4. \A b \in Actor : ActorOK(actor[b])' BY <1>2, <2>2, <2>3, OthersAreOK
  <2>5. past' \in Past1 /\ past'.mixed = (past.mixed \/ kept)
    <3> DEFINE m == past.mixed \/ kept
               n == past.faults + 1
    <3>1. past' = [past EXCEPT !.faults = n, !.mixed = m] BY <2>1
    <3>2. m \in BOOLEAN /\ n \in Nat BY <1>0 DEF Past1
    <3> HIDE DEF m, n
    <3>3. past'.mixed = m /\ past' \in Past1 BY <1>0, <3>1, <3>2 DEF Past1
    <3> QED BY <3>3 DEF m
  <2>6. ring' \in [Web -> Token \cup {0}] /\ \A w \in Web : ring'[w] \in {0, ring[w]}
    BY <1>1, <2>1 DEF SessionInv, SessionTypes
  <2>7. SessionTypes' BY <1>0, <2>2, <2>5, <2>6 DEF SessionInv, SessionTypes, OthersStay
  <2>8. FileOK' BY <1>0, <2>1 DEF SessionInv, FileOK
  <2>9. TokenOK' BY <1>0, <2>6 DEF SessionInv, TokenOK
  <2>10. HalvesOK'
    <3> SUFFICES ASSUME ~past.mixed, ~kept PROVE HalvesOK' BY <2>5 DEF HalvesOK
    <3>1. Saving = {a} BY <2>1 DEF SessionInv, HalvesOK, Saving
    <3>2. Saving' = {}
      BY <1>2, <2>2, <2>3, <3>1, OthersAreOK DEF Saving, Rest1
    <3>3. file # NoConfig => file.server \in Web BY DEF SessionInv, FileOK, File1
    <3>4. ASSUME file # NoConfig, file.backend = "keyring", ring'[file.server] # 0
          PROVE  token[ring'[file.server]].owner = file.user
      <4>1. ring'[file.server] = ring[file.server] BY <2>6, <3>3, <3>4
      <4>2. ~(x.backend = "keyring" /\ x.server = file.server)
        BY <1>1, <2>1, <3>4 DEF SessionInv, SessionTypes
      <4> QED BY <3>1, <3>4, <4>1, <4>2 DEF SessionInv, HalvesOK
    <3> QED BY <1>0, <2>1, <3>2, <3>4 DEF HalvesOK
  <2> QED BY <2>4, <2>7, <2>8, <2>9, <2>10 DEF SessionInv
<1> QED BY <1>3, <1>4, <1>5

LEMMA OwnerKeeps == SessionInv /\ Owner => SessionInv'
<1> SUFFICES ASSUME SessionInv, Owner PROVE SessionInv' OBVIOUS
<1>1. UNCHANGED <<file, ring, actor, past>> BY DEF Owner
<1>2. TokensGrow
  <2>1. PICK t \in Token, at \in {"revoked", "wipe"} :
          Good(t) /\ token' = [token EXCEPT ![t].at = at]
    BY DEF Owner
  <2> DEFINE r == [token[t] EXCEPT !.at = at]
  <2>2. /\ r \in Token1 /\ r.at \in {"revoked", "wipe"} /\ r.met = token[t].met
        /\ r.server = token[t].server /\ r.owner = token[t].owner
    BY DEF SessionInv, SessionTypes, Token1
  <2>3. token' = [token EXCEPT ![t] = r] BY <2>1
  <2> HIDE DEF r
  <2> QED BY <2>2, <2>3 DEF TokensGrow, SessionInv, SessionTypes, TokenOK
<1>3. SessionTypes' BY <1>1, <1>2 DEF SessionInv, SessionTypes, TokensGrow
<1>4. \A a \in Actor : ActorOK(actor[a])'
  <2>1. \A z : ActorOK(z) => ActorOK(z)' BY <1>2, ActorsStayOK
  <2> QED BY <1>1, <2>1 DEF SessionInv, ActorOK
<1>5. FileOK' /\ TokenOK'
      /\ \A w \in Web : ring[w] # 0 => token'[ring[w]].owner = token[ring[w]].owner
  BY <1>1, <1>2, StoredStays
<1>6. HalvesOK'
  <2>1. file # NoConfig => file.server \in Web BY DEF SessionInv, FileOK, File1
  <2> QED BY <1>1, <1>5, <2>1 DEF SessionInv, HalvesOK, Saving
<1> QED BY <1>3, <1>4, <1>5, <1>6 DEF SessionInv

LEMMA SessionKeeps == SessionInv /\ [SessionNext]_sessionVars => SessionInv'
<1> SUFFICES ASSUME SessionInv, [SessionNext]_sessionVars PROVE SessionInv' OBVIOUS
<1>1. CASE Owner BY <1>1, OwnerKeeps
<1>2. CASE UNCHANGED sessionVars
  BY <1>2 DEF sessionVars, SessionInv, SessionTypes, FileOK, TokenOK, ActorOK, HalvesOK, Saving
<1>3. ASSUME NEW a \in Actor,
             StartSignIn(a) \/ ClaimPair(a) \/ Mint(a) \/ Verify(a)
      PROVE  SessionInv'
  BY <1>3, SignInsKeep
<1>4. ASSUME NEW a \in Actor, SaveToken(a) \/ WriteState(a) \/ RollBack(a)
      PROVE  SessionInv'
  BY <1>4, SavingKeeps
<1>5. ASSUME NEW a \in Actor,
             LoadState(a) \/ LoadToken(a) \/ Me(a) \/ Logout(a) \/ Die(a)
      PROVE  SessionInv'
  BY <1>5, ChecksKeep
<1>6. ASSUME NEW a \in Actor, ClearToken(a) \/ ClearState(a) \/ WipeLocal(a)
      PROVE  SessionInv'
  BY <1>6, ClearingKeeps
<1> QED BY <1>1, <1>2, <1>3, <1>4, <1>5, <1>6 DEF SessionNext

(* Whatever sign-ins, checks, logouts, wipes, losses, refusals and deaths  *)
(* interleave, for any number of commands, servers, accounts and tokens:   *)
(* what is stored was accepted by /me, and it is the account of the file   *)
(* unless two sign-ins stored at once or one died between its halves.      *)
THEOREM WhatIsStoredWasVerified == SessionSpec => []StoredIsVerified
BY SessionKeeps, SessionStarts, InvImplies, PTL DEF SessionSpec

-----------------------------------------------------------------------------
(* What a check knows while no sign-in wrote since it began to load: the   *)
(* file is the one it read or none, and what the keyring holds under that  *)
(* server is the token it loaded or none.  When the file is gone, or the   *)
(* check has cleared the keyring, that entry is gone, unless it was left.  *)
SameFile(x) ==
  file = NoConfig \/ /\ file.server = x.server /\ file.backend = x.backend
                     /\ x.backend = "file" => file.token = x.tok
Undisturbed(x) ==
  /\ SameFile(x)
  /\ x.phase # "token" /\ x.backend = "keyring" => ring[x.server] \in {0, x.tok}
  /\ x.server \notin past.left /\ (file = NoConfig \/ x.phase \in {"remove", "wipe"})
       => ring[x.server] = 0
CheckOK(x) ==
  x # Rest1 /\ x.kind \in Checks =>
    /\ x.tok # 0 => token[x.tok].server = x.server /\ x.server \in Web
    /\ x.phase = "wipe" => x.kind = "wipe"
    /\ x.kind \in Probes =>
         /\ x.server \in Web
         /\ x.phase # "token" => x.tok # 0
         /\ x.phase \in {"clear", "remove", "wipe"} => token[x.tok].at \in {"revoked", "wipe"}
         /\ x.calm => Undisturbed(x)

(* A token that is not stored yet is the concern of one sign-in alone.     *)
Pending == {a \in Actor : actor[a].phase \in {"verify", "keyring"}}
Fresh(b) ==
  /\ actor[b].tok \notin Held
  /\ \A a \in Actor \ {b} : actor[a] # Rest1 => actor[a].tok # actor[b].tok
ClearInv ==
  /\ rest = FALSE => file = NoConfig
  /\ \A a \in Actor : actor[a] # Rest1 /\ actor[a].tok # 0 => token[actor[a].tok].at # "none"
  /\ \A a \in Actor : CheckOK(actor[a])
  /\ \A b \in Pending : Fresh(b)
BothInv == SessionInv /\ ClearInv

LEMMA ClearStarts == SessionInit => ClearInv
<1> SUFFICES ASSUME SessionInit PROVE ClearInv OBVIOUS
<1>1. \A a \in Actor : actor[a] = Rest1 BY DEF SessionInit
<1>2. Pending = {} BY <1>1 DEF Pending, Rest1
<1> QED BY <1>1, <1>2 DEF SessionInit, ClearInv, CheckOK

(* A rejected token stays rejected.                                        *)
TokensAge ==
  /\ TokensGrow
  /\ \A t \in Token : token[t].at \in {"revoked", "wipe"} => token'[t].at \in {"revoked", "wipe"}
(* What is stored only goes away, the file not before its keyring entry    *)
(* unless that entry is left.                                              *)
Shrinks ==
  /\ file' \in {file, NoConfig} /\ \A w \in Web : ring'[w] \in {0, ring[w]}
  /\ past.left \subseteq past'.left
  /\ file # NoConfig /\ file' = NoConfig /\ file.server \notin past'.left
       => ring'[file.server] = 0

LEMMA KnownTokens ==
  ASSUME BothInv
  PROVE  /\ \A w \in Web : ring[w] # 0 => /\ ring[w] \in Token /\ token[ring[w]].at # "none"
                                          /\ token[ring[w]].server = w
         /\ file # NoConfig => file \in File1
         /\ file.token # 0 => /\ file.token \in Token /\ token[file.token].at # "none"
                              /\ token[file.token].server = file.server
         /\ 0 \notin Held /\ Held \subseteq Token
         /\ \A t \in Held : token[t].at # "none"
<1>1. \A w \in Web : ring[w] # 0 => /\ ring[w] \in Token /\ token[ring[w]].at # "none"
                                    /\ token[ring[w]].server = w
  BY DEF BothInv, SessionInv, SessionTypes, TokenOK
<1>2. file # NoConfig => file \in File1 BY DEF BothInv, SessionInv, FileOK
<1>3. file.token # 0 => /\ file.token \in Token /\ token[file.token].at # "none"
                        /\ token[file.token].server = file.server
  <2>1. NoConfig.token = 0 BY DEF NoConfig
  <2> QED BY <1>2, <2>1 DEF BothInv, SessionInv, FileOK, TokenOK, File1
<1> QED BY <1>1, <1>2, <1>3 DEF Held

(* A check that does not move knows what it knew.                          *)
LEMMA ChecksKnow ==
  ASSUME BothInv, TokensAge, NEW x \in Busy \cup {Rest1}, CheckOK(x),
         x # Rest1 /\ x.tok # 0 => token[x.tok].at # "none",
         x # Rest1 /\ x.kind \in Checks /\ x.calm => Shrinks
  PROVE  CheckOK(x)'
<1> SUFFICES ASSUME x # Rest1, x.kind \in Checks PROVE CheckOK(x)' BY DEF CheckOK
<1>1. x \in Busy /\ x.tok \in Token \cup {0} /\ x.calm \in BOOLEAN BY DEF Busy
<1>2. x.tok # 0 => x.tok \in Token /\ token[x.tok].server = x.server /\ x.server \in Web
  BY <1>1 DEF CheckOK
<1>3. x.kind \in Probes =>
        /\ x.server \in Web
        /\ x.phase # "token" => x.tok # 0
        /\ x.phase \in {"clear", "remove", "wipe"} => token[x.tok].at \in {"revoked", "wipe"}
        /\ x.calm => Undisturbed(x)
  BY DEF CheckOK
<1>4. ASSUME x.kind \in Probes, x.calm PROVE Undisturbed(x)'
  <2>1. Shrinks /\ Undisturbed(x) /\ x.server \in Web BY <1>3, <1>4 DEF Checks
  <2>2. SameFile(x)' BY <2>1 DEF Shrinks, Undisturbed, SameFile
  <2>3. ASSUME x.server \notin past'.left, file' = NoConfig \/ x.phase \in {"remove", "wipe"}
        PROVE  ring'[x.server] = 0
    <3>1. ring'[x.server] \in {0, ring[x.server]} /\ x.server \notin past.left
      BY <2>1, <2>3 DEF Shrinks, BothInv, SessionInv, SessionTypes
    <3>2. CASE file = NoConfig \/ x.phase \in {"remove", "wipe"}
      BY <2>1, <3>1, <3>2 DEF Undisturbed
    <3>3. CASE file # NoConfig /\ file' = NoConfig
      BY <2>1, <2>3, <3>3 DEF Shrinks, Undisturbed, SameFile
    <3> QED BY <2>3, <3>2, <3>3
  <2>4. x.phase # "token" /\ x.backend = "keyring" => ring'[x.server] \in {0, x.tok}
    BY <2>1 DEF Shrinks, Undisturbed
  <2> QED BY <2>2, <2>3, <2>4 DEF Undisturbed
<1>5. x.tok # 0 => token'[x.tok].server = x.server
  BY <1>2 DEF TokensAge, TokensGrow
<1>6. x.tok # 0 /\ token[x.tok].at \in {"revoked", "wipe"}
        => token'[x.tok].at \in {"revoked", "wipe"}
  BY <1>2 DEF TokensAge
<1>7. x.kind \in Probes /\ x.phase \in {"clear", "remove", "wipe"}
        => token'[x.tok].at \in {"revoked", "wipe"}
  <2> SUFFICES ASSUME x.kind \in Probes, x.phase \in {"clear", "remove", "wipe"}
               PROVE  token'[x.tok].at \in {"revoked", "wipe"}
    OBVIOUS
  <2>1. token[x.tok].at \in {"revoked", "wipe"} /\ x.phase # "token" BY <1>3
  <2>2. x.tok # 0 BY <1>3, <2>1
  <2> QED BY <1>6, <2>1, <2>2
<1> HIDE DEF Undisturbed, TokensAge
<1> QED BY <1>2, <1>3, <1>4, <1>5, <1>7 DEF CheckOK

(* The commands that do not move: they know what they knew, or know that a *)
(* sign-in wrote.                                                          *)
Disturbs(a) ==
  \A b \in Actor \ {a} : actor[b] # Rest1 /\ actor[b].kind \in Checks => actor'[b].calm = FALSE
LEMMA OthersKnow ==
  ASSUME BothInv, TokensAge, NEW a \in Actor, OthersStay(a), Shrinks \/ Disturbs(a),
         NEW b \in Actor \ {a}
  PROVE  /\ CheckOK(actor[b])'
         /\ actor'[b] # Rest1 /\ actor'[b].tok # 0 => token'[actor'[b].tok].at # "none"
<1>1. PICK x : x = actor'[b] OBVIOUS
<1>2. x \in Busy \cup {Rest1} BY <1>1 DEF OthersStay
<1>3. \/ x = actor[b]
      \/ actor[b] # Rest1 /\ actor[b] \in Busy /\ x = [actor[b] EXCEPT !.calm = FALSE]
  BY <1>1 DEF OthersStay, BothInv, SessionInv, SessionTypes
<1>4. CheckOK(actor[b]) /\ (actor[b] # Rest1 /\ actor[b].tok # 0 => token[actor[b].tok].at # "none")
  BY DEF BothInv, ClearInv
<1>5. CheckOK(x) /\ (x # Rest1 /\ x.tok # 0 => token[x.tok].at # "none")
  <2>1. CASE x = actor[b] BY <1>4, <2>1
  <2>2. CASE actor[b] # Rest1 /\ actor[b] \in Busy /\ x = [actor[b] EXCEPT !.calm = FALSE]
    <3>1. /\ x.kind = actor[b].kind /\ x.phase = actor[b].phase /\ x.tok = actor[b].tok
          /\ x.server = actor[b].server /\ x.calm = FALSE
      BY <2>2 DEF Busy
    <3> QED BY <1>4, <2>2, <3>1 DEF CheckOK
  <2> QED BY <1>3, <2>1, <2>2
<1>6. x # Rest1 /\ x.kind \in Checks /\ x.calm => Shrinks
  <2>1. CASE Disturbs(a)
    <3>1. x.kind \in Checks /\ x # Rest1 => actor[b] # Rest1 /\ actor[b].kind \in Checks
      BY <1>3 DEF Busy
    <3> QED BY <1>1, <2>1, <3>1 DEF Disturbs
  <2> QED BY <2>1
<1>7. CheckOK(x)' BY <1>2, <1>5, <1>6, ChecksKnow
<1>8. x # Rest1 /\ x.tok # 0 => token'[x.tok].at # "none"
  <2>1. x # Rest1 => x.tok \in Token \cup {0} BY <1>2 DEF Busy
  <2> QED BY <1>5, <2>1 DEF TokensAge, TokensGrow
<1> QED BY <1>1, <1>7, <1>8 DEF CheckOK, Undisturbed, SameFile

(* No other command comes to hold a token that waits to be stored.         *)
LEMMA FreshStays ==
  ASSUME BothInv, NEW a \in Actor, OthersStay(a),
         \/ Held' \subseteq Held
         \/ actor[a] # Rest1 /\ a \notin Pending' /\ Held' \subseteq Held \cup {actor[a].tok},
         a \in Pending' => a \in Pending /\ actor'[a].tok = actor[a].tok,
         \/ actor'[a] = Rest1
         \/ actor'[a].tok \in Held \cup {0}
         \/ actor[a] # Rest1 /\ actor'[a].tok = actor[a].tok
  PROVE  \A b \in Pending' : Fresh(b)'
<1>1. \A b \in Actor \ {a} : /\ actor'[b] = Rest1 <=> actor[b] = Rest1
                             /\ actor'[b].phase = actor[b].phase
                             /\ actor[b] # Rest1 => actor'[b].tok = actor[b].tok
  <2> TAKE b \in Actor \ {a}
  <2>1. CASE actor'[b] = actor[b] BY <2>1
  <2>2. CASE actor[b] # Rest1 /\ actor'[b] = [actor[b] EXCEPT !.calm = FALSE]
    <3>1. actor[b] \in Busy BY <2>2 DEF BothInv, SessionInv, SessionTypes
    <3>2. Rest1.phase = "idle" /\ actor[b].phase # "idle" BY <3>1 DEF Rest1, Busy
    <3>3. actor'[b].phase = actor[b].phase /\ actor'[b].tok = actor[b].tok
      BY <2>2, <3>1 DEF Busy
    <3> QED BY <2>2, <3>2, <3>3
  <2> QED BY <2>1, <2>2 DEF OthersStay
<1>2. \A b \in Pending : /\ actor[b] # Rest1 /\ actor[b].tok # 0 /\ actor[b].tok \notin Held
                         /\ \A c \in Actor \ {b} : actor[c] # Rest1 => actor[c].tok # actor[b].tok
  <2> TAKE b \in Pending
  <2>1. actor[b] # Rest1 /\ b \in Actor BY DEF Pending, Rest1
  <2>2. actor[b].tok \in Token BY <2>1 DEF Pending, BothInv, SessionInv, ActorOK
  <2>3. Fresh(b) BY DEF BothInv, ClearInv
  <2> QED BY <2>1, <2>2, <2>3 DEF Fresh, Token
<1> SUFFICES ASSUME NEW b \in Pending' PROVE Fresh(b)' OBVIOUS
<1>3. b \in Actor /\ b \in Pending /\ actor'[b].tok = actor[b].tok
  BY <1>1, <1>2 DEF Pending
<1>4. actor'[b].tok \notin Held'
  BY <1>2, <1>3
<1>5. ASSUME NEW c \in Actor \ {b}, actor'[c] # Rest1 PROVE actor'[c].tok # actor'[b].tok
  <2>1. CASE c # a BY <1>1, <1>2, <1>3, <1>5, <2>1
  <2>2. CASE c = a BY <1>2, <1>3, <1>5, <2>2
  <2> QED BY <2>1, <2>2
<1> QED BY <1>4, <1>5 DEF Fresh

LEMMA StepClears ==
  ASSUME BothInv, TokensAge, NEW a \in Actor, OthersStay(a), Shrinks \/ Disturbs(a),
         CheckOK(actor[a])', rest' = FALSE => file' = NoConfig,
         actor'[a] # Rest1 /\ actor'[a].tok # 0 => token'[actor'[a].tok].at # "none",
         \A b \in Pending' : Fresh(b)'
  PROVE  ClearInv'
<1>1. \A b \in Actor : CheckOK(actor[b])'
  BY OthersKnow
<1>2. \A b \in Actor : actor'[b] # Rest1 /\ actor'[b].tok # 0 => token'[actor'[b].tok].at # "none"
  BY OthersKnow
<1> QED BY <1>1, <1>2 DEF ClearInv

LEMMA GotoMoves ==
  ASSUME BothInv, NEW a \in Actor, actor[a] # Rest1, NEW ph, Goto(a, ph),
         ph \in {"idle", "mint", "keyring", "clear", "remove", "wipe"}
  PROVE  /\ OthersStay(a)
         /\ ph = "idle" => actor'[a] = Rest1
         /\ ph # "idle" => /\ actor'[a] \in Busy /\ actor'[a].phase = ph
                           /\ actor'[a].kind = actor[a].kind /\ actor'[a].tok = actor[a].tok
                           /\ actor'[a].server = actor[a].server
                           /\ actor'[a].backend = actor[a].backend
                           /\ actor'[a].calm = actor[a].calm
<1> DEFINE y == IF ph = "idle" THEN Rest1 ELSE [actor[a] EXCEPT !.phase = ph]
<1>1. actor[a] \in Busy BY DEF BothInv, SessionInv, SessionTypes
<1>2. /\ y \in Busy \cup {Rest1}
      /\ ph # "idle" => /\ y \in Busy /\ y.phase = ph /\ y.kind = actor[a].kind
                        /\ y.tok = actor[a].tok /\ y.server = actor[a].server
                        /\ y.backend = actor[a].backend /\ y.calm = actor[a].calm
      /\ ph = "idle" => y = Rest1
  BY <1>1 DEF Busy
<1>3. Does(a, y) BY DEF Goto
<1> HIDE DEF y
<1>4. OthersStay(a) /\ actor'[a] = y BY <1>2, <1>3, DoesMoves DEF BothInv
<1> QED BY <1>2, <1>4

LEMMA Aged ==
  ASSUME BothInv, UNCHANGED token
  PROVE  TokensAge
BY TokensStay DEF BothInv, TokensAge

(* A step that leaves what is stored as it is.                             *)
LEMMA StillStored ==
  ASSUME BothInv, UNCHANGED <<file, ring, rest>>, past.left \subseteq past'.left
  PROVE  Held' = Held /\ (rest' = FALSE => file' = NoConfig) /\ Shrinks
BY DEF BothInv, ClearInv, Held, Shrinks

LEMMA Mixes ==
  ASSUME BothInv, Fault \/ UNCHANGED past
  PROVE  past.left \subseteq past'.left
BY FaultKeeps DEF BothInv

LEMMA SignInKinds == SignIn \cap Checks = {} BY DEF SignIn, Checks, Loads, Probes

(* A sign-in that goes on, or ends, with the token it has.                 *)
LEMMA SignInGoesOn ==
  ASSUME BothInv, TokensAge, NEW a \in Actor, actor[a] # Rest1, actor[a].kind \in SignIn,
         NEW ph \in {"idle", "mint", "keyring"}, Goto(a, ph),
         UNCHANGED <<file, ring, rest>>, Fault \/ UNCHANGED past,
         ph = "keyring" => actor[a].phase = "verify"
  PROVE  ClearInv'
<1>1. /\ OthersStay(a)
      /\ ph = "idle" => actor'[a] = Rest1
      /\ ph # "idle" => /\ actor'[a] \in Busy /\ actor'[a].phase = ph
                        /\ actor'[a].kind = actor[a].kind /\ actor'[a].tok = actor[a].tok
  BY GotoMoves
<1>2. Held' = Held /\ (rest' = FALSE => file' = NoConfig) /\ Shrinks
  BY StillStored, Mixes
<1>3. CheckOK(actor[a])' BY <1>1, SignInKinds DEF CheckOK
<1>4. actor'[a] # Rest1 /\ actor'[a].tok # 0 => token'[actor'[a].tok].at # "none"
  <2>1. actor[a].tok # 0 => token[actor[a].tok].at # "none" BY DEF BothInv, ClearInv
  <2>2. actor[a].tok \in Token \cup {0} BY DEF BothInv, SessionInv, SessionTypes, Busy
  <2>3. actor[a].tok # 0 => token'[actor[a].tok].at # "none"
    BY <2>1, <2>2 DEF TokensAge, TokensGrow
  <2> QED BY <1>1, <2>3
<1>5. a \in Pending' => a \in Pending /\ actor'[a].tok = actor[a].tok
  BY <1>1 DEF Pending, Rest1
<1>6. \A b \in Pending' : Fresh(b)' BY <1>1, <1>2, <1>5, FreshStays
<1> QED BY <1>1, <1>2, <1>3, <1>4, <1>6, StepClears

LEMMA SignInsClear ==
  ASSUME BothInv, NEW a \in Actor, StartSignIn(a) \/ ClaimPair(a) \/ Mint(a) \/ Verify(a)
  PROVE  ClearInv'
<1>0. actor[a] \in Busy \cup {Rest1} /\ ActorOK(actor[a])
  BY DEF BothInv, SessionInv, SessionTypes
<1>1. CASE StartSignIn(a)
  <2>1. PICK k \in SignIn, w \in Web, u \in Person :
          Does(a, [NewActor EXCEPT !.kind = k, !.phase = IF k = "pair" THEN "claim" ELSE "mint",
                                   !.server = w, !.user = u])
    BY <1>1 DEF StartSignIn
  <2> DEFINE y == [NewActor EXCEPT !.kind = k, !.phase = IF k = "pair" THEN "claim" ELSE "mint",
                                   !.server = w, !.user = u]
  <2>2. y \in Busy /\ y.phase \in {"claim", "mint"} /\ y.tok = 0 /\ y.kind \in SignIn
    BY DEF NewActor, Busy, SignIn
  <2> HIDE DEF y
  <2>3. OthersStay(a) /\ actor'[a] = y BY <2>1, <2>2, DoesMoves DEF y, BothInv
  <2>4. UNCHANGED <<file, ring, rest, past, token>> BY <1>1 DEF StartSignIn
  <2>5. Held' = Held /\ (rest' = FALSE => file' = NoConfig) /\ Shrinks /\ TokensAge
    BY <2>4, StillStored, Mixes, Aged
  <2>6. CheckOK(actor[a])' BY <2>2, <2>3, SignInKinds DEF CheckOK
  <2>7. a \notin Pending' BY <2>2, <2>3 DEF Pending
  <2>8. \A b \in Pending' : Fresh(b)' BY <2>2, <2>3, <2>5, <2>7, FreshStays
  <2> QED BY <2>2, <2>3, <2>5, <2>6, <2>8, StepClears
<1>2. CASE ClaimPair(a)
  <2>1. actor[a] # Rest1 /\ actor[a].kind \in SignIn BY <1>2 DEF ClaimPair, Is, Rest1, SignIn
  <2> QED BY <1>2, <2>1, SignInGoesOn, Aged DEF ClaimPair
<1>3. CASE Mint(a)
  <2> DEFINE t == Minted(a)
  <2>1. t \in Token /\ token[t].at = "none"
    BY <1>3 DEF Mint, Minted, Unminted1
  <2>2. actor[a].phase = "mint" /\ actor[a] # Rest1 /\ actor[a].server \in Web
        /\ actor[a].user \in Person /\ actor[a] \in Busy /\ actor[a].kind \in SignIn
    BY <1>0, <1>3 DEF Mint, Is, Rest1, ActorOK
  <2>3. token' = [token EXCEPT ![t] = [at |-> "good", server |-> actor[a].server,
                                       owner |-> actor[a].user, met |-> FALSE]]
    BY <1>3 DEF Mint, MintedNow
  <2>4. UNCHANGED <<file, ring, rest>> /\ (Fault \/ UNCHANGED past) BY <1>3 DEF Mint
  <2> HIDE DEF t
  <2>5. TokensAge
    BY <2>1, <2>2, <2>3
    DEF TokensAge, TokensGrow, BothInv, SessionInv, SessionTypes, TokenOK, Token1
  <2>6. Held' = Held /\ (rest' = FALSE => file' = NoConfig) /\ Shrinks
    BY <2>4, StillStored, Mixes
  <2>7. CASE Does(a, Verifying(a))
    <3> DEFINE y == [actor[a] EXCEPT !.phase = "verify", !.tok = t]
    <3>1. y \in Busy /\ y.phase = "verify" /\ y.tok = t /\ y.kind \in SignIn
      BY <2>1, <2>2 DEF Busy
    <3>2. Does(a, y) BY <2>7 DEF Verifying, t
    <3> HIDE DEF y
    <3>3. OthersStay(a) /\ actor'[a] = y BY <3>1, <3>2, DoesMoves DEF BothInv
    <3>4. token'[t].at = "good" BY <2>1, <2>3 DEF BothInv, SessionInv, SessionTypes
    <3>5. CheckOK(actor[a])' BY <3>1, <3>3, SignInKinds DEF CheckOK
    <3>6. \A b \in Actor \ {a} : /\ actor'[b] = Rest1 <=> actor[b] = Rest1
                                 /\ actor'[b].phase = actor[b].phase
                                 /\ actor[b] # Rest1 => actor'[b].tok = actor[b].tok
      BY <3>2 DEF Does, BothInv, SessionInv, SessionTypes
    <3>7. \A b \in Actor : actor[b] # Rest1 => actor[b].tok # t
      <4>1. \A b \in Actor : actor[b] # Rest1 /\ actor[b].tok # 0
              => token[actor[b].tok].at # "none"
        BY DEF BothInv, ClearInv
      <4> QED BY <2>1, <4>1 DEF Token
    <3>8. ASSUME NEW b \in Pending' PROVE Fresh(b)'
      <4>1. CASE b = a
        <5>1. t \notin Held BY <2>1, KnownTokens
        <5> QED BY <2>6, <3>1, <3>3, <3>6, <3>7, <4>1, <5>1 DEF Fresh
      <4>2. CASE b # a
        <5>1. b \in Pending /\ b \in Actor /\ actor[b] # Rest1
          BY <3>6, <4>2 DEF Pending, Rest1
        <5>2. Fresh(b) BY <5>1 DEF BothInv, ClearInv
        <5>3. actor'[b].tok = actor[b].tok BY <3>6, <4>2, <5>1
        <5> QED BY <2>6, <3>1, <3>3, <3>6, <3>7, <4>2, <5>1, <5>2, <5>3 DEF Fresh
      <4> QED BY <4>1, <4>2
    <3> QED BY <2>5, <2>6, <3>1, <3>3, <3>4, <3>5, <3>8, StepClears
  <2>8. CASE UNCHANGED actor
    <3>1. OthersStay(a) BY <2>8 DEF OthersStay, BothInv, SessionInv, SessionTypes
    <3>2. CheckOK(actor[a])' BY <2>2, <2>8, SignInKinds DEF CheckOK
    <3>3. \A b \in Pending' : Fresh(b)'
      BY <2>2, <2>6, <2>8, <3>1, FreshStays DEF Pending
    <3>4. actor[a].tok # 0 => token'[actor[a].tok].at # "none"
      <4>1. actor[a].tok # 0 => token[actor[a].tok].at # "none" BY <2>2 DEF BothInv, ClearInv
      <4>2. actor[a].tok \in Token \cup {0} BY <2>2 DEF Busy
      <4> QED BY <2>5, <4>1, <4>2 DEF TokensAge, TokensGrow
    <3> QED BY <2>5, <2>6, <2>8, <3>1, <3>2, <3>3, <3>4, StepClears
  <2>9. CASE Goto(a, "idle") BY <2>2, <2>4, <2>5, <2>9, SignInGoesOn
  <2> QED BY <1>3, <2>7, <2>8, <2>9 DEF Mint
<1>4. CASE Verify(a)
  <2> DEFINE t == actor[a].tok
  <2>1. actor[a].phase = "verify" /\ actor[a] # Rest1 /\ t \in Token /\ actor[a].kind \in SignIn
    BY <1>0, <1>4 DEF Verify, Is, Rest1, ActorOK
  <2>2. UNCHANGED <<file, ring, rest>> /\ (Fault \/ UNCHANGED past) BY <1>4 DEF Verify
  <2>3. CASE UNCHANGED token /\ Goto(a, "idle")
    BY <2>1, <2>2, <2>3, Aged, SignInGoesOn
  <2>4. CASE Alive(t) /\ token' = [token EXCEPT ![t].met = TRUE] /\ Goto(a, "keyring")
    <3> HIDE DEF t
    <3> DEFINE r == [token[t] EXCEPT !.met = TRUE]
    <3>1. token[t] \in Token1 /\ token[t].at \in {"good", "wipe"}
      BY <2>1, <2>4 DEF BothInv, SessionInv, SessionTypes, Alive
    <3>2. /\ r \in Token1 /\ r.at = token[t].at /\ r.met /\ r.server = token[t].server
          /\ r.owner = token[t].owner
      BY <3>1 DEF Token1
    <3>3. token' = [token EXCEPT ![t] = r] BY <2>4
    <3> HIDE DEF r
    <3>4. TokensAge
      BY <2>1, <3>1, <3>2, <3>3
      DEF TokensAge, TokensGrow, BothInv, SessionInv, SessionTypes, TokenOK
    <3> QED BY <2>1, <2>2, <2>4, <3>4, SignInGoesOn
  <2> QED BY <1>4, <2>3, <2>4 DEF Verify
<1> QED BY <1>1, <1>2, <1>3, <1>4

(* A command that ends.                                                    *)
LEMMA EndsClear ==
  ASSUME BothInv, TokensAge, NEW a \in Actor, OthersStay(a), actor'[a] = Rest1,
         Shrinks, rest' = FALSE => file' = NoConfig, Held' \subseteq Held
  PROVE  ClearInv'
<1>1. CheckOK(actor[a])' BY DEF CheckOK
<1>2. a \notin Pending' BY DEF Pending, Rest1
<1>3. \A b \in Pending' : Fresh(b)' BY <1>2, FreshStays
<1> QED BY <1>1, <1>3, StepClears

(* A check or a logout that goes on with the token it has.                 *)
LEMMA CheckGoesOn ==
  ASSUME BothInv, TokensAge, NEW a \in Actor, actor[a] # Rest1, actor[a].kind \in Checks,
         NEW ph \in {"clear", "remove", "wipe"}, NEW y, Does(a, y),
         y \in {[actor[a] EXCEPT !.phase = ph],
                [[actor[a] EXCEPT !.kind = "wipe"] EXCEPT !.phase = ph]},
         Shrinks, rest' = FALSE => file' = NoConfig, Held' \subseteq Held,
         ph = "wipe" => y.kind = "wipe",
         y.kind # actor[a].kind => actor[a].kind = "check",
         actor[a].kind \in Probes =>
           /\ actor[a].phase # "token"
           /\ token'[actor[a].tok].at \in {"revoked", "wipe"}
           /\ ph = "clear" => actor[a].phase = "me"
           /\ ph = "remove" /\ actor[a].calm /\ actor[a].server \notin past'.left
                => ring'[actor[a].server] = 0
           /\ ph = "remove" => actor[a].phase = "clear"
           /\ ph = "wipe" => actor[a].phase = "remove"
  PROVE  ClearInv'
<1> DEFINE x == actor[a]
<1>2. x \in Busy /\ x.tok \in Token \cup {0} /\ CheckOK(x)
      /\ (x.tok # 0 => token[x.tok].at # "none")
  BY DEF BothInv, SessionInv, SessionTypes, ClearInv, Busy
<1>1. /\ y \in Busy /\ y.phase = ph /\ y.kind \in {x.kind, "wipe"} /\ y.tok = x.tok
      /\ y.server = x.server /\ y.backend = x.backend /\ y.calm = x.calm
  BY <1>2 DEF Busy, Checks, Probes
<1>9. y.kind \in Probes => x.kind \in Probes BY <1>1 DEF Probes
<1>10. OthersStay(a) /\ actor'[a] = y BY <1>1, DoesMoves DEF BothInv
<1> HIDE DEF x
<1>3. x.tok # 0 => /\ token'[x.tok].server = x.server /\ token'[x.tok].at # "none"
                   /\ x.server \in Web
  BY <1>2 DEF CheckOK, TokensAge, TokensGrow, x
<1>4. ASSUME x.kind \in Probes, x.calm PROVE Undisturbed(actor[a])'
  <2>1. Undisturbed(x) /\ x.server \in Web BY <1>2, <1>4 DEF CheckOK, x
  <2>3. file' = NoConfig \/ /\ file'.server = x.server /\ file'.backend = x.backend
                            /\ x.backend = "file" => file'.token = x.tok
    BY <2>1 DEF Undisturbed, Shrinks, SameFile
  <2>4. x.backend = "keyring" => ring'[x.server] \in {0, x.tok}
    BY <1>4, <2>1 DEF Undisturbed, Shrinks, x
  <2>5. ASSUME x.server \notin past'.left, file' = NoConfig \/ ph \in {"remove", "wipe"}
        PROVE  ring'[x.server] = 0
    <3>1. ring'[x.server] \in {0, ring[x.server]} /\ x.server \notin past.left
      BY <2>1, <2>5 DEF Shrinks, BothInv, SessionInv, SessionTypes
    <3>2. CASE ph = "remove" BY <1>4, <2>5, <3>2 DEF x
    <3>3. CASE file = NoConfig \/ x.phase = "remove"
      BY <2>1, <3>1, <3>3 DEF Undisturbed
    <3>4. CASE file # NoConfig /\ x.phase # "remove" /\ file' = NoConfig
      BY <2>1, <2>5, <3>4 DEF Shrinks, Undisturbed, SameFile
    <3> QED BY <1>4, <2>5, <3>2, <3>3, <3>4 DEF x
  <2> QED BY <1>1, <1>10, <2>3, <2>4, <2>5 DEF Undisturbed, SameFile
<1>5. x.kind \in Probes => /\ x.tok # 0 /\ x.server \in Web
                          /\ token'[x.tok].at \in {"revoked", "wipe"}
  BY <1>2 DEF CheckOK, x
<1>6. CheckOK(actor[a])'
  <2>1. y.tok # 0 => token'[y.tok].server = y.server /\ y.server \in Web BY <1>1, <1>3
  <2>2. y.phase = "wipe" => y.kind = "wipe" BY <1>1
  <2>3. ASSUME y.kind \in Probes
        PROVE  /\ y.server \in Web /\ y.tok # 0
               /\ token'[y.tok].at \in {"revoked", "wipe"}
               /\ y.calm => Undisturbed(actor[a])'
    BY <1>1, <1>4, <1>5, <1>9, <2>3
  <2> HIDE DEF Undisturbed
  <2> QED BY <1>10, <2>1, <2>2, <2>3 DEF CheckOK
<1>7. a \notin Pending' BY <1>1, <1>10 DEF Pending
<1>8. \A b \in Pending' : Fresh(b)' BY <1>1, <1>7, <1>10, FreshStays DEF x
<1> QED BY <1>1, <1>3, <1>6, <1>8, <1>10, StepClears

LEMMA CheckGoesTo ==
  ASSUME BothInv, TokensAge, NEW a \in Actor, actor[a] # Rest1, actor[a].kind \in Checks,
         NEW ph \in {"clear", "remove", "wipe"}, Goto(a, ph),
         Shrinks, rest' = FALSE => file' = NoConfig, Held' \subseteq Held,
         ph = "wipe" => actor[a].kind = "wipe",
         actor[a].kind \in Probes =>
           /\ actor[a].phase # "token"
           /\ token'[actor[a].tok].at \in {"revoked", "wipe"}
           /\ ph = "clear" => actor[a].phase = "me"
           /\ ph = "remove" /\ actor[a].calm /\ actor[a].server \notin past'.left
                => ring'[actor[a].server] = 0
           /\ ph = "remove" => actor[a].phase = "clear"
           /\ ph = "wipe" => actor[a].phase = "remove"
  PROVE  ClearInv'
<1> DEFINE y == [actor[a] EXCEPT !.phase = ph]
<1>1. Does(a, y) BY DEF Goto
<1>2. y.kind = actor[a].kind
  BY DEF BothInv, SessionInv, SessionTypes, Busy
<1>3. y \in {[actor[a] EXCEPT !.phase = ph],
            [[actor[a] EXCEPT !.kind = "wipe"] EXCEPT !.phase = ph]}
  OBVIOUS
<1> HIDE DEF y
<1> QED BY <1>1, <1>2, <1>3, CheckGoesOn

LEMMA ChecksClear ==
  ASSUME BothInv, NEW a \in Actor,
         LoadState(a) \/ LoadToken(a) \/ Me(a) \/ Logout(a) \/ Die(a)
  PROVE  ClearInv'
<1>0. /\ actor[a] \in Busy \cup {Rest1} /\ ActorOK(actor[a]) /\ CheckOK(actor[a])
      /\ past \in Past1 /\ 0 \notin Token
  BY DEF BothInv, SessionInv, SessionTypes, ClearInv, Token
<1>1. CASE LoadState(a)
  <2>1. PICK k \in Loads :
          /\ file # NoConfig \/ k = "trayLogout"
          /\ Does(a, [NewActor EXCEPT !.kind = k, !.server = file.server,
                                      !.backend = file.backend, !.tok = file.token,
                                      !.phase = IF file # NoConfig THEN "token" ELSE "clear"])
    BY <1>1 DEF LoadState
  <2> DEFINE y == [NewActor EXCEPT !.kind = k, !.server = file.server, !.backend = file.backend,
                                   !.tok = file.token,
                                   !.phase = IF file # NoConfig THEN "token" ELSE "clear"]
  <2>2. /\ file.server \in Web \cup {"none"} /\ file.backend \in {"none", "keyring", "file"}
        /\ file.token \in Token \cup {0}
        /\ file # NoConfig => file.server \in Web
        /\ file = NoConfig => file.token = 0
    BY DEF BothInv, SessionInv, FileOK, File1, NoConfig
  <2>3. /\ y \in Busy /\ y.server = file.server /\ y.kind = k /\ y.tok = file.token
        /\ y.backend = file.backend /\ y.calm = TRUE
        /\ y.phase = IF file # NoConfig THEN "token" ELSE "clear"
    BY <2>2 DEF NewActor, Busy, Checks, Loads
  <2> HIDE DEF y
  <2>4. OthersStay(a) /\ actor'[a] = y BY <2>1, <2>3, DoesMoves DEF y, BothInv
  <2>5. UNCHANGED <<file, ring, rest, past, token>> BY <1>1 DEF LoadState
  <2>6. Held' = Held /\ (rest' = FALSE => file' = NoConfig) /\ Shrinks /\ TokensAge
    BY <2>5, StillStored, Mixes, Aged
  <2>7. file.token # 0 => /\ token[file.token].at # "none"
                          /\ token[file.token].server = file.server
    BY KnownTokens
  <2>8. CheckOK(y)
    <3>1. y.kind \in Probes => file # NoConfig BY <2>1, <2>3 DEF Loads, Probes
    <3>2. y.kind \in Probes => Undisturbed(y)
      BY <2>3, <3>1 DEF Undisturbed, SameFile
    <3> QED BY <2>2, <2>3, <2>7, <3>1, <3>2 DEF CheckOK
  <2>9. CheckOK(actor[a])' BY <2>4, <2>5, <2>8 DEF CheckOK, Undisturbed, SameFile
  <2>10. a \notin Pending' BY <2>3, <2>4 DEF Pending
  <2>11. y.tok \in Held \cup {0} BY <2>3 DEF Held
  <2>12. \A b \in Pending' : Fresh(b)' BY <2>4, <2>6, <2>10, <2>11, FreshStays
  <2>13. y.tok # 0 => token'[y.tok].at # "none" BY <2>3, <2>5, <2>7
  <2> QED BY <2>4, <2>6, <2>9, <2>12, <2>13, StepClears
<1>2. CASE LoadToken(a)
  <2> DEFINE x == actor[a]
             t == IF actor[a].backend = "file" THEN actor[a].tok ELSE ring[actor[a].server]
  <2>1. x.phase = "token" /\ x # Rest1 /\ x \in Busy /\ x.kind \in Checks /\ x.server \in Web
        /\ x.kind \in Loads
    BY <1>0, <1>2 DEF LoadToken, Is, Rest1, ActorOK, Checks
  <2>2. UNCHANGED <<file, ring, rest, token, past>> BY <1>2 DEF LoadToken
  <2>3. Held' = Held /\ (rest' = FALSE => file' = NoConfig) /\ Shrinks /\ TokensAge
    BY <2>2, StillStored, Mixes, Aged
  <2>4. CASE t = 0
    <3>1. Goto(a, "idle") \/ (x.kind = "trayLogout" /\ Goto(a, "clear"))
      BY <1>2, <2>4 DEF LoadToken
    <3>2. CASE Goto(a, "idle") BY <2>1, <2>3, <3>2, GotoMoves, EndsClear
    <3>3. CASE x.kind = "trayLogout" /\ Goto(a, "clear")
      BY <2>1, <2>3, <3>3, CheckGoesTo DEF Probes
    <3> QED BY <3>1, <3>2, <3>3
  <2>5. CASE t # 0
    <3> DEFINE ph == IF actor[a].kind = "check" THEN "me" ELSE "revoke"
               y == [actor[a] EXCEPT !.tok = t, !.phase = ph]
    <3>1. Does(a, y) BY <1>2, <2>5 DEF LoadToken
    <3>2. /\ t \in Token /\ token[t].at # "none" /\ token[t].server = x.server
          /\ x.backend # "file" => t = ring[x.server]
          /\ x.backend = "file" => t = x.tok
          /\ x.backend # "file" => t \in Held
      <4>1. CASE x.backend = "file"
        <5>1. t = x.tok /\ x.tok \in Token \cup {0} BY <2>1, <4>1 DEF Busy
        <5>2. token[x.tok].server = x.server /\ token[x.tok].at # "none"
          BY <1>0, <2>1, <2>5, <5>1 DEF CheckOK, BothInv, ClearInv
        <5> QED BY <2>5, <4>1, <5>1, <5>2
      <4>2. CASE x.backend # "file"
        <5>1. t = ring[x.server] BY <4>2
        <5> HIDE DEF t, x
        <5> QED BY <2>1, <2>5, <4>2, <5>1, KnownTokens DEF Held
      <4> QED BY <4>1, <4>2
    <3> HIDE DEF t
    <3>3. /\ y \in Busy /\ y.phase = ph /\ ph \in {"me", "revoke"} /\ y.tok = t
          /\ y.kind = x.kind /\ y.server = x.server /\ y.backend = x.backend
          /\ y.calm = x.calm
      BY <2>1, <3>2 DEF Busy
    <3> HIDE DEF y
    <3>4. OthersStay(a) /\ actor'[a] = y BY <3>1, <3>3, DoesMoves DEF BothInv
    <3>5. x.kind \in Probes /\ x.calm => Undisturbed(y)
      <4> SUFFICES ASSUME x.kind \in Probes, x.calm PROVE Undisturbed(y) OBVIOUS
      <4>1. Undisturbed(x) BY <1>0, <2>1 DEF CheckOK
      <4>2. SameFile(y) BY <2>1, <3>2, <3>3, <4>1 DEF Undisturbed, SameFile
      <4>3. y.backend = "keyring" => ring[y.server] \in {0, y.tok} BY <3>2, <3>3
      <4>4. y.server \notin past.left /\ file = NoConfig => ring[y.server] = 0
        BY <2>1, <3>3, <4>1 DEF Undisturbed
      <4> QED BY <3>3, <4>2, <4>3, <4>4 DEF Undisturbed
    <3>6. CheckOK(y)
      BY <1>0, <2>1, <3>2, <3>3, <3>5 DEF CheckOK
    <3>7. CheckOK(actor[a])' BY <2>2, <3>4, <3>6 DEF CheckOK, Undisturbed, SameFile
    <3>8. a \notin Pending' BY <3>3, <3>4 DEF Pending
    <3>9. \A b \in Pending' : Fresh(b)'
      BY <2>1, <2>3, <3>2, <3>3, <3>4, <3>8, FreshStays
    <3>10. token'[y.tok].at # "none" BY <2>2, <3>2, <3>3
    <3> QED BY <2>3, <3>4, <3>7, <3>9, <3>10, StepClears
  <2> QED BY <2>4, <2>5
<1>3. CASE Me(a)
  <2> DEFINE x == actor[a]
  <2>1. x.phase = "me" /\ x # Rest1 /\ x.kind = "check" /\ x.kind \in Checks /\ x \in Busy
    BY <1>0, <1>3 DEF Me, Is, Rest1, Checks, Probes
  <2>2. UNCHANGED <<file, ring, rest, token>> /\ (Fault \/ UNCHANGED past) BY <1>3 DEF Me
  <2>3. Held' = Held /\ (rest' = FALSE => file' = NoConfig) /\ Shrinks /\ TokensAge
    BY <2>2, StillStored, Mixes, Aged
  <2>4. CASE Goto(a, "idle") BY <2>1, <2>3, <2>4, GotoMoves, EndsClear
  <2>5. ASSUME NEW y \in AfterMe(x), Does(a, y) PROVE ClearInv'
    <3>1. CASE y = Rest1
      <4>1. Goto(a, "idle") BY <2>5, <3>1 DEF Goto
      <4> QED BY <2>4, <4>1
    <3>2. CASE y # Rest1
      <4>1. token'[x.tok].at \in {"revoked", "wipe"} BY <2>2, <2>5, <3>2 DEF AfterMe
      <4>2. y \in {[x EXCEPT !.phase = "clear"],
                   [[x EXCEPT !.kind = "wipe"] EXCEPT !.phase = "clear"]}
        BY <2>5, <3>2 DEF AfterMe, Clears
      <4> QED BY <2>1, <2>3, <2>5, <4>1, <4>2, CheckGoesOn
    <3> QED BY <3>1, <3>2
  <2> QED BY <1>3, <2>4, <2>5 DEF Me
<1>4. CASE Logout(a)
  <2> DEFINE t == actor[a].tok
  <2>1. actor[a].phase = "revoke" /\ actor[a] # Rest1 /\ actor[a].kind \notin Probes
        /\ actor[a].kind \in Checks
    BY <1>4 DEF Logout, Is, Rest1, Checks, Loads, Probes
  <2>2. UNCHANGED <<file, ring, rest>> /\ (Fault \/ UNCHANGED past) /\ Goto(a, "clear")
    BY <1>4 DEF Logout
  <2> HIDE DEF t
  <2>3. ASSUME token' = [token EXCEPT ![t].at = "revoked"] PROVE TokensAge
    <3> DEFINE r == [token[t] EXCEPT !.at = "revoked"]
    <3>1. token' = [token EXCEPT ![t] = r] BY <2>3
    <3>2. t \in Token => /\ r \in Token1 /\ r.at = "revoked" /\ r.met = token[t].met
                         /\ r.server = token[t].server /\ r.owner = token[t].owner
      BY DEF BothInv, SessionInv, SessionTypes, Token1
    <3> HIDE DEF r
    <3>3. CASE t \in Token
      BY <3>1, <3>2, <3>3
      DEF TokensAge, TokensGrow, BothInv, SessionInv, SessionTypes, TokenOK
    <3>4. CASE t \notin Token
      <4>1. UNCHANGED token BY <3>1, <3>4 DEF BothInv, SessionInv, SessionTypes
      <4> QED BY <4>1, Aged
    <3> QED BY <3>3, <3>4
  <2>4. TokensAge BY <1>4, <2>3, Aged DEF Logout, t
  <2>5. Held' = Held /\ (rest' = FALSE => file' = NoConfig) /\ Shrinks
    BY <2>2, StillStored, Mixes
  <2> QED BY <2>1, <2>2, <2>4, <2>5, CheckGoesTo
<1>5. CASE Die(a)
  <2>1. /\ Goto(a, "idle") /\ UNCHANGED <<file, rest, ring, token>> /\ actor[a] # Rest1
        /\ past' = [past EXCEPT !.faults = @ + 1, !.mixed = @ \/ a \in Saving]
    BY <1>5 DEF Die, Rest1
  <2>2. past.left \subseteq past'.left
    BY <1>0, <2>1 DEF Past1
  <2>3. Held' = Held /\ (rest' = FALSE => file' = NoConfig) /\ Shrinks /\ TokensAge
    BY <1>0, <2>1, <2>2, StillStored, Aged
  <2> QED BY <2>1, <2>3, GotoMoves, EndsClear
<1> QED BY <1>1, <1>2, <1>3, <1>4, <1>5

LEMMA ClearingsClear ==
  ASSUME BothInv, NEW a \in Actor, ClearToken(a) \/ ClearState(a) \/ WipeLocal(a)
  PROVE  ClearInv'
<1> DEFINE x == actor[a]
<1>0. /\ x \in Busy /\ x # Rest1 /\ CheckOK(x) /\ x.kind \in Checks
      /\ UNCHANGED token /\ past \in Past1
      /\ ring \in [Web -> Token \cup {0}]
      /\ x.phase \in {"clear", "remove", "wipe"}
  BY DEF BothInv, SessionInv, SessionTypes, ClearInv, ClearToken, ClearState, WipeLocal, Is, Rest1
<1>1. TokensAge BY <1>0, Aged
<1>2. x.kind \in Probes => token[x.tok].at \in {"revoked", "wipe"} /\ x.server \in Web
  BY <1>0 DEF CheckOK
<1>5. /\ past.left \subseteq past'.left /\ file' \in {file, NoConfig}
      /\ file' # file => past'.left = Parted
      /\ \A w \in Web : ring'[w] \in {0, ring[w]}
  BY <1>0, Leaves DEF BothInv
<1>6. file # NoConfig => file.server \in Web BY DEF BothInv, SessionInv, FileOK, File1
<1>7. Shrinks
  <2>1. ASSUME file # NoConfig, file' = NoConfig, file.server \notin past'.left
        PROVE  ring'[file.server] = 0
    <3>1. ring[file.server] = 0 BY <1>5, <1>6, <2>1 DEF Parted
    <3> QED BY <1>5, <1>6, <2>1, <3>1
  <2> QED BY <1>5, <2>1 DEF Shrinks
<1>8. Held' \subseteq Held BY <1>5 DEF Held, NoConfig
<1>9. rest' = FALSE => file' = NoConfig
  BY DEF ClearToken, ClearState, WipeLocal, BothInv, ClearInv
<1>3. CASE ClearToken(a)
  <2>1. UNCHANGED file /\ Goto(a, "remove") /\ x.phase = "clear"
    BY <1>3 DEF ClearToken, Is
  <2>2. ASSUME x.kind \in Probes, x.calm, x.server \notin past'.left PROVE ring'[x.server] = 0
    <3>1. Undisturbed(x) /\ x.server \in Web BY <1>0, <2>2 DEF CheckOK
    <3>2. CASE file = NoConfig
      <4>1. ring[x.server] = 0 BY <1>5, <2>2, <3>1, <3>2 DEF Undisturbed
      <4> QED BY <1>5, <3>1, <4>1
    <3>3. CASE file # NoConfig
      <4>1. file.server = x.server BY <3>1, <3>3 DEF Undisturbed, SameFile
      <4>2. \/ ring' = [ring EXCEPT ![file.server] = 0]
            \/ UNCHANGED ring /\ past' = [past EXCEPT !.faults = @ + 1, !.left = Parted]
        BY <1>3, <3>3 DEF ClearToken
      <4>3. CASE ring' = [ring EXCEPT ![file.server] = 0] BY <1>0, <3>1, <4>1, <4>3
      <4>4. CASE UNCHANGED ring /\ past' = [past EXCEPT !.faults = @ + 1, !.left = Parted]
        <5>1. past'.left = Parted BY <1>0, <4>4 DEF Past1
        <5> QED BY <2>2, <3>1, <4>1, <4>4, <5>1 DEF Parted
      <4> QED BY <4>2, <4>3, <4>4
    <3> QED BY <3>2, <3>3
  <2> QED BY <1>0, <1>1, <1>2, <1>7, <1>8, <1>9, <2>1, <2>2, CheckGoesTo
<1>4. CASE ClearState(a) \/ WipeLocal(a)
  <2>1. Goto(a, "idle") \/ (x.kind = "wipe" /\ x.phase = "remove" /\ Goto(a, "wipe"))
    BY <1>4 DEF ClearState, WipeLocal, Is
  <2>2. CASE Goto(a, "idle") BY <1>0, <1>1, <1>7, <1>8, <1>9, <2>2, GotoMoves, EndsClear
  <2>3. CASE x.kind = "wipe" /\ x.phase = "remove" /\ Goto(a, "wipe")
    BY <1>0, <1>1, <1>2, <1>7, <1>8, <1>9, <2>3, CheckGoesTo DEF Probes
  <2> QED BY <2>1, <2>2, <2>3
<1> QED BY <1>3, <1>4

LEMMA SavingsClear ==
  ASSUME BothInv, NEW a \in Actor, SaveToken(a) \/ WriteState(a) \/ RollBack(a)
  PROVE  ClearInv'
<1> DEFINE x == actor[a]
<1>0. /\ x \in Busy /\ x # Rest1 /\ ActorOK(x) /\ x.phase \in {"keyring", "config"}
      /\ x.kind \in SignIn /\ UNCHANGED token /\ past \in Past1
      /\ ring \in [Web -> Token \cup {0}]
  <2>1. x.phase \in {"keyring", "config"} /\ x.kind \in SignIn /\ UNCHANGED token
    BY DEF SaveToken, WriteState, RollBack, Is
  <2>2. x \in Busy \cup {Rest1} /\ ActorOK(x) /\ past \in Past1
        /\ ring \in [Web -> Token \cup {0}]
    BY DEF BothInv, SessionInv, SessionTypes
  <2> HIDE DEF x
  <2>3. x # Rest1 BY <2>1 DEF Rest1
  <2> QED BY <2>1, <2>2, <2>3
<1>1. x.server \in Web /\ x.tok \in Token /\ token[x.tok].at # "none"
  BY <1>0 DEF ActorOK
<1>2. TokensAge BY <1>0, Aged
<1>3. ASSUME NEW y, Stores(a, y) PROVE Disturbs(a)
  <2> SUFFICES ASSUME NEW b \in Actor \ {a}, actor[b] # Rest1, actor[b].kind \in Checks
               PROVE  actor'[b].calm = FALSE
    BY DEF Disturbs
  <2>1. actor[b] \in Busy BY DEF BothInv, SessionInv, SessionTypes
  <2>2. actor[b].phase # "idle" BY <2>1 DEF Busy
  <2>3. actor'[b] = [actor[b] EXCEPT !.calm = FALSE] BY <1>3, <2>2 DEF Stores
  <2> QED BY <2>1, <2>3 DEF Busy
<1>4. CASE SaveToken(a)
  <2>1. PICK stored \in BOOLEAN :
          /\ ring' = IF stored THEN [ring EXCEPT ![x.server] = x.tok] ELSE ring
          /\ Stores(a, [x EXCEPT !.phase = "config",
                                 !.backend = IF stored THEN "keyring" ELSE "file"])
    BY <1>4 DEF SaveToken
  <2>2. UNCHANGED <<file, rest>> /\ x.phase = "keyring" BY <1>4 DEF SaveToken, Is
  <2> DEFINE y == [x EXCEPT !.phase = "config",
                            !.backend = IF stored THEN "keyring" ELSE "file"]
  <2>3. y \in Busy /\ y.phase = "config" /\ y.tok = x.tok /\ y.kind = x.kind
    BY <1>0 DEF Busy
  <2> HIDE DEF y
  <2>4. Stores(a, y) BY <2>1 DEF y
  <2>5. OthersStay(a) /\ actor'[a] = y BY <2>3, <2>4, StoresMoves DEF BothInv
  <2>6. CheckOK(actor[a])' BY <1>0, <2>3, <2>5, SignInKinds DEF CheckOK
  <2>7. Held' \subseteq Held \cup {x.tok}
    <3>1. \A w \in Web : ring'[w] \in {ring[w], x.tok} BY <1>0, <2>1
    <3> HIDE DEF x
    <3> QED BY <2>2, <3>1 DEF Held
  <2>8. a \notin Pending' BY <2>3, <2>5 DEF Pending
  <2>9. \A b \in Pending' : Fresh(b)' BY <1>0, <2>3, <2>5, <2>7, <2>8, FreshStays
  <2>10. rest' = FALSE => file' = NoConfig BY <2>2 DEF BothInv, ClearInv
  <2> QED BY <1>1, <1>2, <1>3, <1>0, <2>3, <2>4, <2>5, <2>6, <2>9, <2>10, StepClears
<1>5. CASE WriteState(a)
  <2>1. /\ x.phase = "config" /\ file' = ConfigOf(x) /\ Stores(a, Rest1)
        /\ UNCHANGED ring /\ rest' = TRUE
    BY <1>5 DEF WriteState, Is
  <2>2. OthersStay(a) /\ actor'[a] = Rest1 BY <2>1, StoresMoves DEF BothInv
  <2>3. CheckOK(actor[a])' BY <2>2 DEF CheckOK
  <2>4. Held' \subseteq Held \cup {x.tok}
    <3>1. file'.token \in {0, x.tok} BY <2>1 DEF ConfigOf
    <3> HIDE DEF x
    <3> QED BY <2>1, <3>1 DEF Held
  <2>5. a \notin Pending' BY <2>2 DEF Pending, Rest1
  <2>6. \A b \in Pending' : Fresh(b)' BY <1>0, <2>2, <2>4, <2>5, FreshStays
  <2> QED BY <1>2, <1>3, <2>1, <2>2, <2>3, <2>6, StepClears
<1>6. CASE RollBack(a)
  <2>1. /\ Goto(a, "idle") /\ UNCHANGED <<file, rest>>
        /\ ring' \in {ring, [ring EXCEPT ![x.server] = 0]}
        /\ \E kept \in BOOLEAN :
             past' = [past EXCEPT !.faults = @ + 1, !.mixed = @ \/ kept]
    BY <1>6 DEF RollBack
  <2>2. past'.left = past.left BY <1>0, <2>1 DEF Past1
  <2>3. \A w \in Web : ring'[w] \in {0, ring[w]} BY <1>0, <2>1
  <2>4. Shrinks /\ (rest' = FALSE => file' = NoConfig) /\ Held' \subseteq Held
    BY <2>1, <2>2, <2>3 DEF Shrinks, Held, BothInv, ClearInv
  <2> QED BY <1>0, <1>2, <2>1, <2>4, GotoMoves, EndsClear
<1> QED BY <1>4, <1>5, <1>6

LEMMA OwnerClears == BothInv /\ Owner => ClearInv'
<1> SUFFICES ASSUME BothInv, Owner PROVE ClearInv' OBVIOUS
<1>1. UNCHANGED <<file, rest, ring, actor, past>> BY DEF Owner
<1>2. TokensAge
  <2>1. PICK t \in Token, at \in {"revoked", "wipe"} :
          Good(t) /\ token' = [token EXCEPT ![t].at = at]
    BY DEF Owner
  <2> DEFINE r == [token[t] EXCEPT !.at = at]
  <2>2. /\ r \in Token1 /\ r.at \in {"revoked", "wipe"} /\ r.met = token[t].met
        /\ r.server = token[t].server /\ r.owner = token[t].owner
    BY DEF BothInv, SessionInv, SessionTypes, Token1
  <2>3. token' = [token EXCEPT ![t] = r] BY <2>1
  <2> HIDE DEF r
  <2> QED BY <2>2, <2>3 DEF TokensAge, TokensGrow, BothInv, SessionInv, SessionTypes, TokenOK
<1>3. Shrinks BY <1>1 DEF Shrinks, BothInv, SessionInv, SessionTypes
<1>4. ASSUME NEW b \in Actor
      PROVE  /\ CheckOK(actor[b])'
             /\ actor'[b] # Rest1 /\ actor'[b].tok # 0 => token'[actor'[b].tok].at # "none"
  <2>1. PICK x : x = actor[b] OBVIOUS
  <2>2. /\ x \in Busy \cup {Rest1} /\ CheckOK(x)
        /\ x # Rest1 /\ x.tok # 0 => token[x.tok].at # "none"
    BY <2>1 DEF BothInv, SessionInv, SessionTypes, ClearInv
  <2>3. CheckOK(x)' BY <1>2, <1>3, <2>2, ChecksKnow
  <2>4. x # Rest1 /\ x.tok # 0 => token'[x.tok].at # "none"
    <3>1. x # Rest1 => x.tok \in Token \cup {0} BY <2>2 DEF Busy
    <3> QED BY <1>2, <2>2, <3>1 DEF TokensAge, TokensGrow
  <2> QED BY <1>1, <2>1, <2>3, <2>4 DEF CheckOK, Undisturbed, SameFile
<1>5. \A b \in Pending' : Fresh(b)' BY <1>1 DEF BothInv, ClearInv, Pending, Fresh, Held
<1> QED BY <1>1, <1>4, <1>5 DEF ClearInv, BothInv

LEMMA ClearKeeps == BothInv /\ [SessionNext]_sessionVars => ClearInv'
<1> SUFFICES ASSUME BothInv, [SessionNext]_sessionVars PROVE ClearInv' OBVIOUS
<1>1. CASE Owner BY <1>1, OwnerClears
<1>2. CASE UNCHANGED sessionVars
  BY <1>2 DEF sessionVars, BothInv, ClearInv, CheckOK, Undisturbed, SameFile, Pending, Fresh, Held
<1>3. ASSUME NEW a \in Actor, StartSignIn(a) \/ ClaimPair(a) \/ Mint(a) \/ Verify(a)
      PROVE  ClearInv'
  BY <1>3, SignInsClear
<1>4. ASSUME NEW a \in Actor, SaveToken(a) \/ WriteState(a) \/ RollBack(a)
      PROVE  ClearInv'
  BY <1>4, SavingsClear
<1>5. ASSUME NEW a \in Actor, LoadState(a) \/ LoadToken(a) \/ Me(a) \/ Logout(a) \/ Die(a)
      PROVE  ClearInv'
  BY <1>5, ChecksClear
<1>6. ASSUME NEW a \in Actor, ClearToken(a) \/ ClearState(a) \/ WipeLocal(a)
      PROVE  ClearInv'
  BY <1>6, ClearingsClear
<1> QED BY <1>1, <1>2, <1>3, <1>4, <1>5, <1>6 DEF SessionNext

(* What a calm check has loaded is what would load now, or nothing would.  *)
LEMMA LoadedIsRejected ==
  ASSUME BothInv, NEW a \in Actor, NEW phase \in {"clear", "remove", "wipe"},
         Is(a, Probes, phase), actor[a].calm, Loaded # 0
  PROVE  ~Good(Loaded)
<1> DEFINE x == actor[a]
<1>1. x # Rest1 /\ CheckOK(x) /\ x.kind \in Probes /\ x.phase \in {"clear", "remove", "wipe"}
      /\ x.kind \in Checks
  BY DEF BothInv, ClearInv, Is, Rest1, Checks
<1>2. Undisturbed(x) /\ x.tok # 0 /\ token[x.tok].at \in {"revoked", "wipe"} /\ x.server \in Web
  BY <1>1 DEF CheckOK
<1>3. SameFile(x) BY <1>1, <1>2 DEF Undisturbed
<1> HIDE DEF x
<1>4. file # NoConfig
  BY NamesAssumption DEF Loaded, NoConfig
<1>5. file \in File1 /\ file.server = x.server /\ file.backend = x.backend
  BY <1>3, <1>4 DEF SameFile, BothInv, SessionInv, FileOK
<1>6. Loaded = x.tok
  <2>1. CASE file.backend = "file" BY <1>3, <1>4, <1>5, <2>1 DEF SameFile, Loaded
  <2>2. CASE file.backend = "keyring"
    BY <1>1, <1>2, <1>5, <2>2 DEF Undisturbed, Loaded
  <2> QED BY <1>5, <2>1, <2>2 DEF File1
<1> QED BY <1>2, <1>6 DEF Good

LEMMA WipedIsGone ==
  ASSUME BothInv, ClearInv', [SessionNext]_sessionVars, NEW a \in Actor, Is(a, Checks, "wipe"),
         ~rest', actor[a].calm, actor[a].server \notin past.left, rest' \in BOOLEAN
  PROVE  file' = NoConfig /\ \A w \in Web : ring'[w] # actor[a].tok
<1> DEFINE x == actor[a]
<1>1. x # Rest1 /\ CheckOK(x) /\ x.phase = "wipe" /\ x.kind \in Checks
  BY DEF BothInv, ClearInv, Is, Rest1
<1>2. Undisturbed(x) /\ x.tok # 0 /\ token[x.tok].server = x.server
  BY <1>1 DEF CheckOK, Probes
<1>3. file' = NoConfig BY DEF ClearInv
<1>4. ring[x.server] = 0 BY <1>1, <1>2 DEF Undisturbed
<1>5. \A w \in Web : ring[w] # x.tok
  BY <1>2, <1>4, KnownTokens
<1>6. ASSUME NEW w \in Web PROVE ring'[w] # x.tok
  <2> DEFINE Comes == ring'[w] \in {0, ring[w]}
                      \/ \E b \in Pending : b # a /\ ring'[w] = actor[b].tok
  <2>1. Comes
    <3>0. ring \in [Web -> Token \cup {0}] BY DEF BothInv, SessionInv, SessionTypes
    <3>1. CASE UNCHANGED ring BY <3>1
    <3>2. ASSUME NEW b \in Actor, SaveToken(b) PROVE Comes
      <4>1. b # a /\ b \in Pending BY <1>1, <3>2 DEF SaveToken, Is, Pending
      <4>2. ring'[w] \in {ring[w], actor[b].tok} BY <3>0, <3>2 DEF SaveToken
      <4> QED BY <4>1, <4>2
    <3>3. ASSUME NEW b \in Actor, RollBack(b) \/ ClearToken(b) PROVE Comes
      <4>1. ring'[w] \in {0, ring[w]} BY <3>0, <3>3 DEF RollBack, ClearToken
      <4> QED BY <4>1
    <3>4. ASSUME NEW b \in Actor,
                 \/ StartSignIn(b) \/ ClaimPair(b) \/ Mint(b) \/ Verify(b)
                 \/ WriteState(b) \/ LoadState(b) \/ LoadToken(b) \/ Me(b)
                 \/ Logout(b) \/ ClearState(b) \/ WipeLocal(b) \/ Die(b)
          PROVE  UNCHANGED ring
      BY <3>4 DEF StartSignIn, ClaimPair, Mint, Verify, WriteState, LoadState, LoadToken, Me,
                  Logout, ClearState, WipeLocal, Die
    <3>5. Owner \/ UNCHANGED sessionVars => UNCHANGED ring BY DEF Owner, sessionVars
    <3> QED BY <3>1, <3>2, <3>3, <3>4, <3>5 DEF SessionNext
  <2>2. \A b \in Pending : b # a => actor[b].tok # x.tok
    BY <1>1 DEF BothInv, ClearInv, Fresh
  <2> QED BY <1>2, <1>5, <2>1, <2>2
<1> QED BY <1>3, <1>6

LEMMA RestIsKnown == rest \in BOOLEAN /\ [SessionNext]_sessionVars => rest' \in BOOLEAN
<1> SUFFICES ASSUME rest \in BOOLEAN, [SessionNext]_sessionVars PROVE rest' \in BOOLEAN
  OBVIOUS
<1>1. ASSUME NEW a \in Actor,
             \/ StartSignIn(a) \/ ClaimPair(a) \/ Mint(a) \/ Verify(a)
             \/ SaveToken(a) \/ RollBack(a) \/ LoadState(a) \/ LoadToken(a) \/ Me(a)
             \/ Logout(a) \/ ClearToken(a) \/ ClearState(a) \/ Die(a)
      PROVE  rest' = rest
  BY <1>1 DEF StartSignIn, ClaimPair, Mint, Verify, SaveToken, RollBack, LoadState, LoadToken,
              Me, Logout, ClearToken, ClearState, Die
<1>2. ASSUME NEW a \in Actor, WriteState(a) \/ WipeLocal(a) PROVE rest' \in BOOLEAN
  BY <1>2 DEF WriteState, WipeLocal
<1>3. Owner \/ UNCHANGED sessionVars => rest' = rest BY DEF Owner, sessionVars
<1> QED BY <1>1, <1>2, <1>3 DEF SessionNext

ClearSafely == BothInv /\ rest \in BOOLEAN
LEMMA ClearsSafely == SessionSpec => []ClearSafely
<1>1. SessionInit => ClearSafely
  BY SessionStarts, ClearStarts DEF ClearSafely, BothInv, SessionInit
<1>2. ClearSafely /\ [SessionNext]_sessionVars => ClearSafely'
  BY SessionKeeps, ClearKeeps, RestIsKnown DEF ClearSafely, BothInv
<1> QED BY <1>1, <1>2, PTL DEF SessionSpec

(* For any number of commands: a check only ever clears a login that the   *)
(* server has rejected, unless a sign-in wrote after it began to load.     *)
THEOREM OnlyTheRejectedIsCleared == SessionSpec => ClearsOnlyRejected
<1> DEFINE ClearsRejected ==
      \A a \in Actor :
       /\ \E phase \in {"clear", "remove", "wipe"} : Is(a, Probes, phase)
       /\ actor'[a] # actor[a] /\ Loaded # 0 /\ Loaded' # Loaded
       => ~Good(Loaded) \/ ~actor[a].calm
<1>1. ClearSafely => ClearsRejected
  <2>1. \A a \in Actor, phase \in {"clear", "remove", "wipe"} :
          Is(a, Probes, phase) /\ actor[a].calm /\ Loaded # 0 /\ BothInv => ~Good(Loaded)
    BY LoadedIsRejected
  <2> QED BY <2>1 DEF ClearSafely
<1>2. ClearSafely /\ [SessionNext]_sessionVars => [ClearsRejected]_sessionVars BY <1>1
<1> QED BY <1>2, ClearsSafely, PTL DEF SessionSpec, ClearsOnlyRejected

(* And when a remote wipe has removed the directory, nothing of the login  *)
(* it was about is left, neither a file nor a keyring entry that holds its *)
(* token, whatever was refused, lost or cleared by others meanwhile, but   *)
(* for an entry the keyring refused to delete.                             *)
THEOREM AWipeIsComplete == SessionSpec => WipeLeavesNothing
<1> DEFINE Gone ==
      \A a \in Actor :
        Is(a, Checks, "wipe") /\ ~rest' /\ actor[a].calm /\ actor[a].server \notin past.left
        => file' = NoConfig /\ \A w \in Web : ring'[w] # actor[a].tok
<1>1. ClearSafely /\ ClearSafely' /\ [SessionNext]_sessionVars => Gone
  <2> SUFFICES ASSUME ClearSafely, ClearSafely', [SessionNext]_sessionVars PROVE Gone OBVIOUS
  <2>1. BothInv /\ ClearInv' /\ rest' \in BOOLEAN BY DEF ClearSafely, BothInv
  <2> SUFFICES ASSUME NEW a \in Actor, Is(a, Checks, "wipe"), ~rest', actor[a].calm,
                      actor[a].server \notin past.left
               PROVE  file' = NoConfig /\ \A w \in Web : ring'[w] # actor[a].tok
    OBVIOUS
  <2> QED BY <2>1, WipedIsGone
<1>2. ClearSafely /\ ClearSafely' /\ [SessionNext]_sessionVars => [Gone]_sessionVars BY <1>1
<1> QED BY <1>2, ClearsSafely, PTL DEF SessionSpec, WipeLeavesNothing
=============================================================================
