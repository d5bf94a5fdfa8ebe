------------------------------- MODULE Posts -------------------------------
(***************************************************************************)
(* The posts of the CMS (PostsService): the version on air is in the       *)
(* columns, what an editor changes of a published post waits in an overlay *)
(* (draft) until it is published.  Every operation reads the row and       *)
(* writes it later, by its id alone.  A version is two fields, a text and  *)
(* a category: the columns refer to the category by a foreign key, the     *)
(* overlay is JSON and refers to it by its id only.  Slugs, tags, SEO      *)
(* fields, covers and the featured flag are more of the same.              *)
(***************************************************************************)
EXTENDS Common

CONSTANTS
    Articles,     \* the posts there may be
    Sections,     \* the categories there are at first
    MaxSaves      \* bound on the saves of each post

Version == [text : Nat, section : Sections \cup {None}]

ASSUME PostsAssumption == MaxSaves \in Nat /\ None \notin Version

VARIABLES
    post,       \* each post: status, live (the columns) and draft (the overlay)
    sections,   \* the categories in the database
    editing,    \* the requests between their read and their write
    saves,      \* how many versions of each post were saved
    aired,      \* history: the version each post was last published with
    wanted,     \* history: the version the editors last asked for
    collided    \* history: the posts two requests on which overlapped

postsVars == <<post, sections, editing, saves, aired, wanted, collided>>

Blank == [text |-> 0, section |-> None]
NoPost == [status |-> "absent", live |-> Blank, draft |-> None]

PostsInit ==
    /\ post = [a \in Articles |-> NoPost]
    /\ sections = Sections
    /\ editing = {}
    /\ saves = [a \in Articles |-> 0]
    /\ aired = [a \in Articles |-> None]
    /\ wanted = [a \in Articles |-> None]
    /\ collided = {}

-----------------------------------------------------------------------------
(* Faulty variants, for testing the properties. *)

\* a save always writes the columns
OverlaysNever(row) == FALSE

-----------------------------------------------------------------------------
(* Reads. *)

\* working: the overlay when there is one, otherwise the columns
WorkingCopy(row) == IF row.draft # None THEN row.draft ELSE row.live

\* merge: the fields of the request over the working version
MergedPost(row, field, value) == [WorkingCopy(row) EXCEPT ![field] = value]

Overlays(row) == row.status = "PUBLISHED"

\* findRow, and the state archive asks for.  Two equal requests at once are one.
ReadsPost(op, a, edit) ==
    /\ Cardinality(editing) < MaxInFlight
    /\ post[a].status # "absent"
    /\ op = "archive" => post[a].status = "PUBLISHED"
    /\ editing' = editing \cup {[op |-> op, post |-> a, row |-> post[a], edit |-> edit]}
    /\ UNCHANGED <<post, sections, saves, aired, wanted, collided>>

ReadsSave(a) ==
    /\ saves[a] < MaxSaves
    /\ \/ ReadsPost("save", a, [field |-> "text", value |-> saves[a] + 1])
       \/ \E s \in sections \cup {None} : ReadsPost("save", a, [field |-> "section", value |-> s])

-----------------------------------------------------------------------------
(* Writes. *)

Served(q) ==
    /\ editing' = editing \ {q}
    /\ collided' = collided \cup {o.post : o \in {r \in editing \ {q} : r.post = q.post}}

\* The row is gone, or a column would refer to a category that is: the write throws.
Refers(version) == version.section = None \/ version.section \in sections
Thrown(q, version) == post[q.post].status = "absent" \/ ~Refers(version)

Writes(q, row) == post' = [post EXCEPT ![q.post] = row]

\* save
Save(q) ==
    LET a == q.post
        merged == MergedPost(q.row, q.edit.field, q.edit.value)
    IN  /\ q.op = "save"
        /\ Served(q)
        /\ \/ Overlays(q.row) /\ post[a].status # "absent"
              /\ Writes(q, [post[a] EXCEPT !.draft = merged])
           \/ ~Overlays(q.row) /\ ~Thrown(q, merged)
              /\ Writes(q, [post[a] EXCEPT !.live = merged, !.draft = None])
        /\ saves' = [saves EXCEPT ![a] = IF q.edit.field = "text" THEN @ + 1 ELSE @]
        /\ wanted' = [wanted EXCEPT ![a] = [@ EXCEPT ![q.edit.field] = q.edit.value]]
        /\ UNCHANGED <<sections, aired>>

\* publish: the working version becomes the columns
Publish(q) ==
    LET w == WorkingCopy(q.row) IN
    /\ q.op = "publish" /\ ~Thrown(q, w)
    /\ Served(q)
    /\ Writes(q, [status |-> "PUBLISHED", live |-> w, draft |-> None])
    /\ aired' = [aired EXCEPT ![q.post] = w]
    /\ UNCHANGED <<sections, saves, wanted>>

\* archive
Archive(q) ==
    /\ q.op = "archive" /\ post[q.post].status # "absent"
    /\ Served(q)
    /\ Writes(q, [post[q.post] EXCEPT !.status = "ARCHIVED"])
    /\ UNCHANGED <<sections, saves, aired, wanted>>

\* discardDraft
Discard(q) ==
    /\ q.op = "discard" /\ post[q.post].status # "absent"
    /\ Served(q)
    /\ Writes(q, [post[q.post] EXCEPT !.draft = None])
    /\ wanted' = [wanted EXCEPT ![q.post] = post[q.post].live]
    /\ UNCHANGED <<sections, saves, aired>>

\* remove: the row is deleted, and is not created again.
RemovePost(q) ==
    /\ q.op = "remove" /\ post[q.post].status # "absent"
    /\ Served(q)
    /\ Writes(q, [NoPost EXCEPT !.live = [Blank EXCEPT !.text = 1]])
    /\ UNCHANGED <<sections, saves, aired, wanted>>

\* A write that throws changes nothing.
PostThrows(q) ==
    /\ \/ Faults
       \/ q.op = "publish" /\ Thrown(q, WorkingCopy(q.row))
       \/ q.op = "save" /\ ~Overlays(q.row)
          /\ Thrown(q, MergedPost(q.row, q.edit.field, q.edit.value))
       \/ post[q.post].status = "absent"
    /\ editing' = editing \ {q}
    /\ UNCHANGED <<post, sections, saves, aired, wanted, collided>>

-----------------------------------------------------------------------------
(* What needs no earlier read. *)

\* createManual, and createFromItem, which may publish at once
CreatePost(a, s, status) ==
    /\ post[a] = NoPost
    /\ LET first == [text |-> 0, section |-> s] IN
         /\ post' = [post EXCEPT ![a] = [status |-> status, live |-> first, draft |-> None]]
         /\ wanted' = [wanted EXCEPT ![a] = first]
         /\ aired' = [aired EXCEPT ![a] = IF status = "PUBLISHED" THEN first ELSE None]
    /\ UNCHANGED <<sections, editing, saves, collided>>

\* CategoriesService.remove: onDelete SetNull in the columns, nothing in the overlays.
Unfiled(version, s) ==
    IF version # None /\ version.section = s THEN [version EXCEPT !.section = None] ELSE version
RemoveSection(s) ==
    /\ s \in sections
    /\ sections' = sections \ {s}
    /\ post' = [a \in Articles |-> [post[a] EXCEPT !.live = Unfiled(@, s)]]
    /\ aired' = [a \in Articles |-> Unfiled(aired[a], s)]
    /\ wanted' = [a \in Articles |-> IF post[a].draft = None THEN Unfiled(wanted[a], s)
                                     ELSE wanted[a]]
    /\ collided' = collided \cup {q.post : q \in editing}
    /\ UNCHANGED <<editing, saves>>

PostsNext ==
    \/ \E a \in Articles :
         \/ ReadsSave(a)
         \/ \E op \in {"publish", "archive", "discard", "remove"} : ReadsPost(op, a, None)
         \/ \E s \in sections \cup {None}, status \in {"DRAFT", "PUBLISHED"} :
               CreatePost(a, s, status)
    \/ \E q \in editing :
         Save(q) \/ Publish(q) \/ Archive(q) \/ Discard(q) \/ RemovePost(q) \/ PostThrows(q)
    \/ \E s \in sections : RemoveSection(s)

PostsSpec == PostsInit /\ [][PostsNext]_postsVars

-----------------------------------------------------------------------------
(* Properties. *)

\* What is on air is what was published last, whatever was saved, discarded,
\* archived or published again since; and no edit is lost: the working version has
\* the last value saved of every field, unless it was discarded.  Both unless two
\* requests on the post overlap.
VersionsStand ==
    \A a \in Articles \ collided :
        /\ post[a].status = "PUBLISHED" => post[a].live = aired[a]
        /\ post[a].status # "absent" => WorkingCopy(post[a]) = wanted[a]
=============================================================================
