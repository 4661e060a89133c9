----------------------------- MODULE Comments -----------------------------
(***************************************************************************)
(* The discussion of one dashboard (app/api/comments.py): comments, one    *)
(* level of replies, pins to widgets, resolving and reopening.  A request  *)
(* checks what it has loaded and writes it in one transaction at READ      *)
(* COMMITTED; widgets and accounts go away while it runs.                  *)
(***************************************************************************)
EXTENDS Integers

CONSTANTS
    People,
    Widgets,
    Posts,         \* request slots
    MaxPosts,      \* bound on the requests ever made
    None

VARIABLES
    comments,      \* dashboard_comments: id -> row
    begun,         \* how many requests there have been; one that creates takes it as the id
    widgets,       \* the dashboard's widgets
    people,        \* the users there are
    post,          \* slot -> the request it serves
    raced          \* comments two updates of which have overlapped; not in the code

vars == <<comments, begun, widgets, people, post, raced>>

Ids == 1..MaxPosts
Comment == [parent : Ids \cup {0}, widget : Widgets \cup {None}, author : People,
            resolved : BOOLEAN, by : People \cup {None}]

\* The row as the request wants it, and as it has loaded it.
NoPost == [op |-> "none", id |-> 0, who |-> None, row |-> None, old |-> None]

TypeOK ==
    /\ DOMAIN comments \subseteq Ids /\ comments \in [DOMAIN comments -> Comment]
    /\ begun \in 0..MaxPosts
    /\ widgets \subseteq Widgets /\ people \subseteq People
    /\ \A p \in Posts : /\ post[p].op \in {"none", "create", "update", "delete"}
                        /\ post[p].id \in Ids \cup {0}
                        /\ post[p].who \in People \cup {None}
                        /\ {post[p].row, post[p].old} \subseteq Comment \cup {None}
    /\ raced \subseteq Ids

Roles == {"viewer", "editor", "admin", "owner"}
IsEditorPlus(role) == role \in {"editor", "admin", "owner"}
IsAdminPlus(role) == role \in {"admin", "owner"}

Exists(c) == c \in DOMAIN comments
Begin(p, op, c, u, row, old) ==
    /\ post[p].op = "none" /\ u \in people
    /\ begun < MaxPosts /\ begun' = begun + 1
    /\ post' = [post EXCEPT ![p] = [op |-> op, id |-> c, who |-> u, row |-> row, old |-> old]]
    /\ UNCHANGED <<comments, widgets, people, raced>>
End(p) == post' = [post EXCEPT ![p] = NoPost]

---------------------------------------------------------------------------
(* What the handlers look up and refuse. *)

MayAnswerAny(c) == Exists(c)
MayAnswer(c) == Exists(c) /\ comments[c].parent = 0

StartCreate(p, u, c, w) ==
    /\ c # 0 => MayAnswer(c)
    /\ w # None => w \in widgets
    /\ Begin(p, "create", begun + 1, u,
             [parent |-> c, widget |-> w, author |-> u, resolved |-> FALSE, by |-> None], None)

\* body and resolved may both be sent; the new body itself does not matter here.
StartUpdate(p, u, c) ==
    /\ Exists(c)
    /\ \E role \in Roles, rewrites \in BOOLEAN, resolved \in BOOLEAN \cup {None} :
         /\ rewrites => comments[c].author = u \/ IsAdminPlus(role)
         /\ resolved # None => IsEditorPlus(role)
         /\ Begin(p, "update", c, u,
                  IF resolved = None THEN comments[c]
                  ELSE [comments[c] EXCEPT !.resolved = resolved,
                                           !.by = IF resolved THEN u ELSE None], comments[c])

StartDelete(p, u, c) ==
    /\ Exists(c)
    /\ \E role \in Roles : comments[c].author = u \/ IsAdminPlus(role)
    /\ Begin(p, "delete", c, u, None, None)

---------------------------------------------------------------------------
(* The commits, and the foreign keys of migration 0007. *)

References(row) ==
    /\ row.parent # 0 => Exists(row.parent)
    /\ row.widget # None => row.widget \in widgets
    /\ row.author \in people

CommitCreate(p) ==
    /\ post[p].op = "create"
    /\ References(post[p].row)
    /\ comments' = [c \in DOMAIN comments \cup {post[p].id} |->
                      IF c = post[p].id THEN post[p].row ELSE comments[c]]
    /\ End(p)
    /\ UNCHANGED <<begun, widgets, people, raced>>

\* An UPDATE names the columns that differ from what was loaded.  Resolving, reopening and
\* deleting are logged, and the log refers to the user.
Merged(row, new, old) ==
    [row EXCEPT !.resolved = IF new.resolved = old.resolved THEN @ ELSE new.resolved,
                !.by = IF new.by = old.by THEN @ ELSE new.by]

CommitUpdate(p) ==
    /\ post[p].op = "update"
    /\ LET c == post[p].id  q == post[p] IN
        /\ Exists(c)
        /\ q.row # q.old => q.who \in people
        /\ comments' = [comments EXCEPT ![c] = Merged(@, q.row, q.old)]
        /\ raced' = IF \E r \in Posts \ {p} : post[r].op = "update" /\ post[r].id = c
                    THEN raced \cup {c} ELSE raced
    /\ End(p)
    /\ UNCHANGED <<begun, widgets, people>>

\* A row takes its replies with it, those made since they were loaded too.
Without(gone) ==
    comments' = [c \in {k \in DOMAIN comments : k \notin gone /\ comments[k].parent \notin gone}
                   |-> comments[c]]
CommitDelete(p) ==
    /\ post[p].op = "delete" /\ post[p].who \in people
    /\ Without({post[p].id})
    /\ End(p)
    /\ UNCHANGED <<begun, widgets, people, raced>>

\* A foreign key, or an UPDATE of a row that is gone: 500, and nothing is written.
Fail(p) ==
    /\ post[p].op # "none"
    /\ End(p)
    /\ UNCHANGED <<comments, begun, widgets, people, raced>>

---------------------------------------------------------------------------
\* delete_widget and restore_version: the comments pinned to it go too.
DropWidget(w) ==
    /\ w \in widgets
    /\ widgets' = widgets \ {w}
    /\ Without({c \in DOMAIN comments : comments[c].widget = w})
    /\ UNCHANGED <<begun, people, post, raced>>

\* The user.deleted webhook: an author's comments go, a resolver is forgotten.
DropPerson(u) ==
    /\ u \in people
    /\ people' = people \ {u}
    /\ LET gone == {c \in DOMAIN comments : comments[c].author = u} IN
        comments' = [c \in {k \in DOMAIN comments : k \notin gone /\ comments[k].parent \notin gone}
                       |-> [comments[c] EXCEPT !.by = IF @ = u THEN None ELSE @]]
    /\ UNCHANGED <<begun, widgets, post, raced>>

Init ==
    /\ comments = <<>>
    /\ begun = 0
    /\ widgets = Widgets /\ people = People
    /\ post = [p \in Posts |-> NoPost]
    /\ raced = {}

Next ==
    \/ \E p \in Posts :
         \/ \E u \in People :
              \/ \E c \in Ids \cup {0}, w \in Widgets \cup {None} : StartCreate(p, u, c, w)
              \/ \E c \in Ids : StartUpdate(p, u, c) \/ StartDelete(p, u, c)
         \/ CommitCreate(p) \/ CommitUpdate(p) \/ CommitDelete(p) \/ Fail(p)
    \/ \E w \in Widgets : DropWidget(w)
    \/ \E u \in People : DropPerson(u)

Spec == Init /\ [][Next]_vars

---------------------------------------------------------------------------
(* Properties *)

\* Whatever is deleted around it: list_comments shows every comment, each either at the top or
\* once below a comment at the top, pinned to a widget that is there; and a comment that is open
\* names nobody who resolved it, unless two updates of it overlapped (app/api/comments.py).
Listed(c) ==
    \/ comments[c].parent = 0
    \/ Exists(comments[c].parent) /\ comments[comments[c].parent].parent = 0
DiscussionIsSound ==
    \A c \in DOMAIN comments :
        /\ Listed(c)
        /\ comments[c].widget \in widgets \cup {None}
        /\ comments[c].author \in people
        /\ ~comments[c].resolved /\ c \notin raced => comments[c].by = None
===========================================================================
