------------------------------ MODULE DriveWalk ------------------------------
(***************************************************************************)
(* How GoogleDriveMetadataClient lists a Drive scope while people go on      *)
(* working in it: a breadth-first walk, one page of one folder per request,  *)
(* one more request for each ACL (integrations/drive/google_client.py).      *)
(* Metadata syncs (list_files), permission runs (list_permission_resources)  *)
(* and the diagnostic (check_permission_access) share the walk.              *)
(*                                                                         *)
(* The other modules take a listing at one moment, with the operator         *)
(* ListPermissionResources.  This one says what of it is left when Drive     *)
(* changes between two requests.                                             *)
(*                                                                         *)
(* External: Google puts a child of a folder on at least one page if it      *)
(* stays in the folder, and on a page only what is in the folder at that     *)
(* moment; a child may come again on a later page.                           *)
(* All pages of one ACL are one request here.                                *)
(***************************************************************************)
EXTENDS DriveAccess, Sequences

CONSTANTS
    PageSize,      \* PAGE_SIZE
    SampleSize,    \* PERMISSION_CHECK_SAMPLE_SIZE
    MaxWalkEdits   \* bound on the edits made before a walk ends

ASSUME WalkAssumption ==
    PageSize \in Nat \ {0} /\ SampleSize \in Nat \ {0} /\ MaxWalkEdits \in Nat

VARIABLES
    walk,      \* the walk: what the generators and their caller hold
    stays,     \* ghost: <<item, folder>> pairs in Drive ever since the walk began
    stated,    \* ghost: relationships Drive stated at some moment of the walk
    begun      \* ghost: the number of edits when the walk began

driveVars == <<drive, edits>>
ghosts == <<stays, stated, begun>>
vars == <<driveVars, walk, ghosts>>

Kinds == {"files", "resources", "check"}
NoPage == [i \in {} |-> {}]
Pages == UNION {[S -> SUBSET Folders] : S \in SUBSET Items}

\* seen: seen_folders and seen_files; folder, returned, more: the listing of
\* _list_children; page: its entries not consumed yet, with their parents.
WalkRecords ==
    [kind : Kinds, step : {"idle", "walking", "done", "failed"},
     pending : Seq(Folders), seen : SUBSET Items, visited : SUBSET Folders,
     folder : Folders, returned : SUBSET Items, page : Pages, more : BOOLEAN,
     result : Listings, errors : BOOLEAN, capped : BOOLEAN]

TypeOK ==
    /\ drive \in Drives /\ edits \in 0..MaxEdits
    /\ walk \in WalkRecords
    /\ stays \subseteq Items \X Folders
    /\ stated \subseteq Tuples
    /\ begun \in 0..MaxEdits

\* _walk_files as it is called: the root waits, and is never an entry.
Begun(kind) ==
    [kind |-> kind, step |-> "walking", pending |-> <<Root>>, seen |-> {Root},
     visited |-> {}, folder |-> Root, returned |-> {}, page |-> NoPage, more |-> FALSE,
     result |-> Nothing, errors |-> FALSE, capped |-> FALSE]

WalkInit ==
    /\ DriveInit
    /\ walk = [Begun("files") EXCEPT !.step = "idle"]
    /\ stays = {} /\ stated = {} /\ begun = 0

Underway == walk.step = "walking"

-----------------------------------------------------------------------------
\* Google Workspace changes, also between two requests of the walk.
Edit ==
    /\ walk.step = "idle" \/ (Underway /\ edits < MaxWalkEdits)
    /\ DriveNext
    /\ stays' = stays \cap Hierarchy(drive')
    /\ stated' = IF Underway THEN stated \cup Stated(drive') ELSE {}
    /\ UNCHANGED <<walk, begun>>

\* A permission run asks for the root by itself and handles it like an entry
\* before the walk.
BeginWalk ==
    /\ walk.step = "idle" /\ edits < MaxWalkEdits
    /\ \E kind \in Kinds :
          walk' = IF kind = "resources"
                  THEN [Begun(kind) EXCEPT !.pending = <<>>, !.seen = {},
                           !.page = [i \in {Root} |-> drive.parents[i]]]
                  ELSE Begun(kind)
    /\ stays' = Hierarchy(drive)
    /\ stated' = Stated(drive)
    /\ begun' = edits
    /\ UNCHANGED driveVars

\* Metadata syncs and permission runs ask for the root first, and fail with it.
RootFails ==
    /\ walk.step = "idle" /\ edits < MaxWalkEdits
    /\ \E kind \in Kinds \ {"check"} : walk' = [Begun(kind) EXCEPT !.step = "failed"]
    /\ UNCHANGED <<driveVars, ghosts>>

\* The entries of a page are consumed before the next one is asked for.
PageConsumed == Underway /\ DOMAIN walk.page = {}

\* The next folder's turn.
Opened ==
    [walk EXCEPT !.folder = Head(walk.pending), !.pending = Tail(walk.pending),
                 !.visited = @ \cup {Head(walk.pending)}, !.returned = {}, !.more = TRUE]

\* The generators as they are when a page is requested.
Asking == IF walk.more THEN walk ELSE Opened

Children(folder) == {i \in Items : folder \in drive.parents[i]}

\* Children that stay in the folder while the walk is under way.
Staying(folder) == {e[1] : e \in {x \in stays : x[2] = folder}}

\* Mutant: the token of the next page is not looked at.
LastPageAlways(w, page, more) == more = FALSE

\* The last page leaves no child out that stays.
LastPage(w, page, more) ==
    IF more THEN page # {} ELSE Staying(w.folder) \subseteq w.returned \cup page

\* Mutant: a folder already met is put on the list again.
UnseenDocuments(page) == {i \in page : i \in Folders \/ i \notin walk.seen}

\* Entries met under another of their parents are skipped.
Unseen(page) == page \ walk.seen

FetchPage ==
    /\ PageConsumed /\ (walk.more \/ walk.pending # <<>>)
    /\ \E w \in {Asking} :
       \E page \in SUBSET Children(w.folder), more \in BOOLEAN :
          /\ Cardinality(page) <= PageSize
          /\ LastPage(w, page, more)
          /\ walk' = [w EXCEPT !.page = [i \in Unseen(page) |-> drive.parents[i]],
                               !.returned = @ \cup page, !.more = more]
    /\ UNCHANGED <<driveVars, ghosts>>

\* A folder cannot be listed: the diagnostic counts it and goes on, every
\* other caller fails and drops what it has.
ListingFails ==
    /\ PageConsumed /\ (walk.more \/ walk.pending # <<>>)
    /\ walk' = IF walk.kind = "check"
               THEN [Asking EXCEPT !.more = FALSE, !.errors = TRUE]
               ELSE [Begun(walk.kind) EXCEPT !.step = "failed"]
    /\ UNCHANGED <<driveVars, ghosts>>

\* Mutant: the variable keeps what the entries before left in it.
AclLeftOver == UNION {walk.result.acl[j] : j \in walk.result.active}

\* Mutant: an unreadable ACL is stored as a refused principal.
AclOfRefused == {Refused}

\* An ACL that cannot be read is empty, and the entry marked.
AclWhenUnreadable == {}

WithEntry(i) ==
    [walk.result EXCEPT
        !.active = @ \cup {i},
        !.parents[i] = walk.page[i],
        !.acl[i] = IF i \in drive.unreadable THEN AclWhenUnreadable ELSE ListedAcl(drive, i),
        !.failed = IF i \in drive.unreadable THEN @ \cup {i} ELSE @]

\* The diagnostic samples no more files.
SampledEnough(result) == Cardinality(result.active) >= SampleSize

\* A folder waits for its turn.  A document, and a folder for a permission
\* run, is handed to the caller, who reads the ACL now; parents are those of
\* the page.  The diagnostic stops at its sample size.
TakeEntry(i) ==
    LET wanted == i \in Documents \/ walk.kind = "resources"
        result == IF wanted THEN WithEntry(i) ELSE walk.result
        enough == walk.kind = "check" /\ wanted /\ SampledEnough(result)
    IN  /\ Underway /\ i \in DOMAIN walk.page
        /\ walk' = [walk EXCEPT
               !.page = [j \in (DOMAIN @) \ {i} |-> @[j]],
               !.seen = @ \cup {i},
               !.pending = IF i \in Folders THEN Append(@, i) ELSE @,
               !.result = result,
               !.capped = enough,
               !.step = IF enough THEN "done" ELSE @]
        /\ UNCHANGED <<driveVars, ghosts>>

EndWalk ==
    /\ PageConsumed /\ ~walk.more /\ walk.pending = <<>>
    /\ walk' = [walk EXCEPT !.step = "done"]
    /\ UNCHANGED <<driveVars, ghosts>>

WalkStep ==
    FetchPage \/ ListingFails \/ EndWalk \/ \E i \in Items : TakeEntry(i)

Next == Edit \/ BeginWalk \/ RootFails \/ WalkStep

Spec == WalkInit /\ [][Next]_vars

-----------------------------------------------------------------------------
(* Properties.                                                             *)

\* The walk saw everything it could: its caller takes the listing for complete.
\* checked_all_available_files of the diagnostic.
Complete == walk.step = "done" /\ ~walk.capped /\ ~walk.errors

Found(i) ==
    /\ i \in walk.seen
    /\ i \in Documents \/ walk.kind = "resources" => i \in walk.result.active

\* What stays in a folder that the walk found is found, however the rest of
\* Drive is moved about, listed in pages and linked in circles: a sync that
\* takes every row it did not see out of the scope only does so for items
\* that were moved.
FindsWhatStays ==
    Complete => /\ Found(Root)
                /\ \A e \in stays : Found(e[2]) => Found(e[1])

\* Each relationship a listing yields was stated by Drive at some moment of
\* the walk, although entries and ACLs come from different moments.
YieldsWhatWasStated ==
    \A i \in walk.result.active :
        /\ \A f \in walk.result.parents[i] : <<i, f>> \in stated
        /\ \A p \in walk.result.acl[i] :
              ~p.deleted /\ p.who # Refused => <<i, p.who>> \in stated

\* No folder is listed twice, so that the walk ends although folders may have
\* several parents and a walk can meet a circle.
ListsFoldersOnce ==
    \A k \in DOMAIN walk.pending :
        /\ walk.pending[k] \notin walk.visited
        /\ \A l \in DOMAIN walk.pending : walk.pending[k] = walk.pending[l] => k = l

\* When nobody edits anything meanwhile, the walk of a permission run is the
\* listing the other modules work with.
UndisturbedWalkIsListing ==
    Complete /\ walk.kind = "resources" /\ edits = begun =>
        /\ walk.result.active = Listed.active
        /\ \A i \in Listed.active :
              /\ walk.result.parents[i] = Listed.parents[i]
              /\ walk.result.acl[i] = Listed.acl[i]
              /\ i \in walk.result.failed <=> i \in Listed.failed

=============================================================================
