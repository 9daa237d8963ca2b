----------------------------- MODULE ContextVerbs -----------------------------
(***************************************************************************)
(* The Explorer menu: `ledgerline-gui --context <verb> <path>` starts a    *)
(* process of its own for the clicked path, and a window that runs the     *)
(* verb.  share, encrypt and decrypt are about the counterpart a path in a *)
(* synced folder has on the server; upload and gallery send the path, a    *)
(* folder entry by entry; sync adds a pair.                                *)
(*                                                                         *)
(* A request may be refused, lost or repeated.  A window stays open, so    *)
(* that a verb may be run again, after a failure too.                      *)
(***************************************************************************)
EXTENDS FilesApi

CONSTANTS
  Clicks,          \* what a user may click: a path, and what WalkDir finds below
                   \* it, in its order; a file is alone
  Shelf,           \* the pairs there may be in sync.json
  Excluded,        \* names the preferences leave out of uploads
  Media,           \* names of photos and videos
  Lower,           \* names without regard to letter case
  MaxVerbs         \* bound: verbs run

(* WalkDir comes to a folder before it comes to what is in it.             *)
Dir(p) == SubSeq(p, 1, Len(p) - 1)
ASSUME ClicksAssumption ==
  /\ Clicks \subseteq [path : Seq(Name),
                       walk : Seq([path : Seq(Name), dir : BOOLEAN, data : Data])]
  /\ \A c \in Clicks :
       /\ c.walk # << >>
       /\ IF c.walk[1].path = << >>
          THEN /\ c.walk[1].dir
               /\ \A m \in DOMAIN c.walk \ {1} :
                    /\ c.walk[m].path # << >>
                    /\ \E n \in 1 .. m - 1 : c.walk[n].dir /\ c.walk[n].path = Dir(c.walk[m].path)
          ELSE Len(c.walk) = 1 /\ Len(c.walk[1].path) = 1 /\ ~c.walk[1].dir
ASSUME LowerAssumption == Lower \in [Name -> Name]

VARIABLES
  shelf,     \* the pairs of sync.json: local and remote paths
  verb       \* the window: what was clicked, the verb, its object, what it made
verbVars == <<shelf, verb>>

Unsynced == <<"nowhere">>
Clicked  == verb.click.path
Walk     == verb.click.walk
NoVerb(c, left) ==
  [click |-> c, left |-> left, kind |-> "none", phase |-> "idle", remote |-> << >>,
   top |-> Root, id |-> Root, at |-> 1, tries |-> 1, created |-> << >>, count |-> 0, skipped |-> 0]
VerbInit == shelf \in {<< >>, Shelf} /\ verb \in {NoVerb(c, MaxVerbs) : c \in Clicks}

(* remoteForLocal: the first pair the path lies in.                        *)
Within(p, root) == Len(root) <= Len(p) /\ SubSeq(p, 1, Len(root)) = root
Below(p, root)  == SubSeq(p, Len(root) + 1, Len(p))
RemoteForLocal(p) ==
  LET in == {n \in DOMAIN shelf : Within(p, shelf[n].local)} IN
  IF in = {} THEN Unsynced
  ELSE LET n == Least(in) IN shelf[n].remote \o Below(p, shelf[n].local)

(* resolveRemoteFile, resolveRemoteFolderID: the listing knows no paths;   *)
(* the first row whose path is the one wanted, but for its letter case.    *)
Fold(p)          == [n \in DOMAIN p |-> Lower[p[n]]]
FoldersNamed(p)  ==
  {f \in Id : /\ Folder(f).at = "live"
             /\ Fold(Append(FolderParts(Folder(f).parent), Folder(f).name)) = Fold(p)}
FilesNamed(p)    == {i \in Listed : Fold(RelPath(i)) = Fold(p)}

-----------------------------------------------------------------------------
Shows(v)    == verb' = v
Failed1(v)  == [v EXCEPT !.phase = "failed"]
Succeeds(v) == [v EXCEPT !.phase = "shown"]
IsFolder    == Walk[1].path = << >>

(* run: share, encrypt, decrypt and openweb ask remoteForLocal and give up *)
(* when the path is not synced; the others take a remote folder the user   *)
(* picked.  The browser it is picked in can create one.                    *)
AboutCounterpart == {"share", "encrypt", "decrypt", "openweb"}
Elsewhere        == {"upload", "gallery", "sync", "createFolder"}
Run ==
  /\ verb.phase \in {"idle", "shown", "failed"} /\ verb.left > 0
  /\ \E k \in AboutCounterpart \cup Elsewhere, to \in {<< >>} \cup {<<n>> : n \in Name} :
       LET remote == IF k \in AboutCounterpart THEN RemoteForLocal(Clicked) ELSE to
           v == [NoVerb(verb.click, verb.left - 1) EXCEPT !.kind = k, !.remote = remote] IN
       /\ k \in AboutCounterpart => to = << >>
       /\ Shows(CASE remote = Unsynced -> Failed1(v)
                  [] k = "openweb" /\ remote # Unsynced -> Succeeds(v)
                  [] k = "sync" /\ (~IsFolder \/ RemoteForLocal(Clicked) # Unsynced) -> Failed1(v)
                  [] k = "sync" /\ IsFolder /\ RemoteForLocal(Clicked) = Unsynced ->
                       [v EXCEPT !.phase = "add"]
                  [] k = "gallery" -> [v EXCEPT !.phase = "walk"]
                  [] OTHER -> [v EXCEPT !.phase = "resolve"])
  /\ UNCHANGED <<server, lost, shelf>>

(* doSync: the pair is added by syncconfig.Add, which may refuse it.       *)
AddPair ==
  /\ verb.phase = "add"
  /\ \/ /\ shelf' = Append(shelf, [local |-> Clicked, remote |-> verb.remote])
        /\ Shows(Succeeds(verb))
     \/ Shows(Failed1(verb)) /\ UNCHANGED shelf
  /\ UNCHANGED <<server, lost>>

(* The folder of an upload, an encryption or a new folder, or the file.    *)
(* The root is a folder without a request, and cannot be encrypted.        *)
WantsFolder == verb.kind \in {"upload", "createFolder"} \/ (verb.kind = "encrypt" /\ IsFolder)
With(i) == IF verb.kind = "upload" THEN [verb EXCEPT !.phase = "walk", !.tries = 1, !.top = i]
           ELSE [verb EXCEPT !.phase = "act", !.tries = 1, !.id = i]
Resolved == {With(i) : i \in IF WantsFolder THEN FoldersNamed(verb.remote)
                             ELSE FilesNamed(verb.remote)}
Resolve ==
  /\ verb.phase = "resolve"
  /\ IF WantsFolder /\ verb.remote = << >>
     THEN /\ Shows(IF verb.kind = "encrypt" THEN Failed1(verb) ELSE With(Root))
          /\ UNCHANGED <<server, lost>>
     ELSE \E a \in Answered(Reading) \cup Unanswered(Reading) :
            /\ Attempt(Reading, a)
            /\ IF Retries(a, verb.tries) THEN Shows([verb EXCEPT !.tries = @ + 1])
               ELSE IF a.answer = "ok" /\ Resolved # {} THEN \E v \in Resolved : Shows(v)
               ELSE Shows(Failed1(verb))
  /\ UNCHANGED shelf

(* One request for the counterpart.                                        *)
VerbOutcomes ==
  LET some == CHOOSE d \in Data : TRUE  name == CHOOSE n \in Name : TRUE IN
  CASE verb.kind = "share"   -> IF Live(verb.id) THEN CreateFileShare ELSE {Refused}
    [] verb.kind = "encrypt" -> IF IsFolder THEN EncryptFolder(verb.id, name, some)
                                ELSE EncryptFile(verb.id, name, some)
    [] verb.kind = "decrypt" -> DecryptFile(verb.id, name, some)
    [] verb.kind = "createFolder" -> CreateFolder(name, verb.id)
Act ==
  /\ verb.phase = "act"
  /\ \E a \in Answered(VerbOutcomes) \cup Unanswered(VerbOutcomes) :
       /\ Attempt(VerbOutcomes, a)
       /\ Shows(IF Retries(a, verb.tries) THEN [verb EXCEPT !.tries = @ + 1]
                ELSE IF a.answer = "ok" THEN Succeeds(verb) ELSE Failed1(verb))
  /\ UNCHANGED shelf

-----------------------------------------------------------------------------
(* uploadTree and doGallery: the walk.  Of a folder, excluded names are    *)
(* passed over, by the upload with all that is below them; the gallery     *)
(* counts what is no photo or video, and looks into every folder.  The     *)
(* variant of Into1 puts everything into the chosen folder.                *)
Entry1        == Walk[verb.at]
Last1(p)      == p[Len(p)]
IntoTop(p)    == verb.top
Into1(p)      == IF p = << >> THEN verb.top
                 ELSE IF p \in DOMAIN verb.created THEN verb.created[p] ELSE Root
FromTop(p)    == <<Last1(Clicked)>> \o p
Leaves(e)     == IsFolder /\ IF verb.kind = "upload"
                             THEN \E n \in DOMAIN FromTop(e.path) : FromTop(e.path)[n] \in Excluded
                             ELSE ~e.dir /\ Last1(e.path) \in Excluded
PassedOver(e) == e.path = << >> \/ Leaves(e) \/ (e.dir /\ verb.kind = "gallery")
NotMedia(e)   == verb.kind = "gallery" /\ Last1(e.path) \notin Media
IsSent(e)     == ~PassedOver(e) /\ ~NotMedia(e)
WalkEnds ==
  /\ verb.phase = "walk" /\ verb.at > Len(Walk)
  /\ Shows(Succeeds(verb)) /\ UNCHANGED <<server, lost, shelf>>
WalkPast ==
  /\ verb.phase = "walk" /\ verb.at <= Len(Walk)
  /\ ~IsSent(Entry1)
  /\ Shows(IF PassedOver(Entry1) THEN [verb EXCEPT !.at = @ + 1]
           ELSE IF IsFolder THEN [verb EXCEPT !.at = @ + 1, !.skipped = @ + 1]
           ELSE Failed1(verb))
  /\ UNCHANGED <<server, lost, shelf>>

(* The id a folder got: that of the answer, not of an attempt before it.   *)
NewFolder(s) == CHOOSE f \in DOMAIN s.folders : f \in FreshFolders
Created(s)   == [p \in DOMAIN verb.created \cup {Entry1.path} |->
                   IF p = Entry1.path THEN NewFolder(s) ELSE verb.created[p]]
Landed(s)    == IF Entry1.dir THEN [verb EXCEPT !.at = @ + 1, !.tries = 1, !.created = Created(s)]
                ELSE [verb EXCEPT !.at = @ + 1, !.tries = 1, !.count = @ + 1]
(* uploadOne sends a file above 8 MiB in parts; here the whole of that     *)
(* transfer is the one request of its entry, which the server carries out, *)
(* refuses, or leaves unanswered (its parts are UploadPool's).             *)
EntryOutcomes ==
  LET e == Entry1 IN
  IF verb.kind = "gallery" THEN UploadPhoto
  ELSE IF e.dir THEN CreateFolder(Last1(e.path), Into1(Dir(e.path)))
  ELSE UploadFile(Last1(e.path), Into1(Dir(e.path)), e.data)
WalkSends ==
  /\ verb.phase = "walk" /\ verb.at <= Len(Walk)
  /\ IsSent(Entry1)
  /\ \E a \in Answered(EntryOutcomes) \cup Unanswered(EntryOutcomes) :
       /\ Attempt(EntryOutcomes, a)
       /\ Shows(IF Retries(a, verb.tries) THEN [verb EXCEPT !.tries = @ + 1]
                ELSE IF a.answer = "ok" THEN Landed(a.server) ELSE Failed1(verb))
  /\ UNCHANGED shelf

VerbNext == \/ Run \/ AddPair \/ Resolve \/ Act \/ WalkEnds \/ WalkPast \/ WalkSends

-----------------------------------------------------------------------------
(* uploadTree "reports how many files landed before any failure": the      *)
(* first files of the walk, as many as the count says and no other, are on *)
(* the server below the chosen folder at their place, with their contents, *)
(* also when the answer to an earlier request was lost and the request was *)
(* repeated, or the verb has been run before.                              *)
Sent(n)   == {m \in 1 .. n : ~Walk[m].dir /\ ~Leaves(Walk[m])}
LandedWhereItLay ==
  verb.kind = "upload" =>
    /\ Cardinality(Sent(verb.at - 1)) = verb.count
    /\ \A m \in Sent(verb.at - 1) : \E i \in Listed :
         RelPath(i) = FolderParts(verb.top) \o Walk[m].path /\ File(i).data = Walk[m].data
=============================================================================
