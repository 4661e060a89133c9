------------------------------ MODULE Backend ------------------------------
(***************************************************************************)
(* What a request passes and what it asks for: Access, and beside it eight *)
(* components that share no state with it or with each other.  A behaviour *)
(* is one of a single component, its subject; the others rest.             *)
(***************************************************************************)
EXTENDS Access

CONSTANTS
    Requests, Max, Length, EndOfTime,                  \* RateLimit
    Slots, Connections, Threads, Tenants,              \* Sessions
    Identities, Emails, Calls, MaxEvents,              \* UserMirror
    People, Widgets, Posts, MaxPosts,                  \* Comments
    Versions, Quiet, Tables, Words, Readers, MaxAsks,  \* Answers
    MaxColumns, MaxCharts, MaxReply,                   \* Generator
    Names, Amounts, MaxOps,                            \* Cleaning
    Features, Categories, Scores                       \* Training

ASSUME LimitAssumption ==
    /\ IsFiniteSet(Requests) /\ Max \in Nat
    /\ Length \in Nat \ {0} /\ EndOfTime \in Nat
ASSUME MirrorAssumption == Emails \cap {"unborn", "gone", None} = {} /\ None \notin {"unborn", "gone"}
ASSUME PostsAssumption == MaxPosts \in Nat
ASSUME TrafficAssumption == MaxEvents \in Nat /\ MaxAsks \in Nat
ASSUME ColumnsAssumption == MaxColumns \in Nat /\ MaxCharts \in Nat /\ MaxReply \in Nat
ASSUME WordsAssumption ==
    /\ None \notin Words
    /\ None \notin [select : BOOLEAN, found : {"count", "nothing", "astray"},
                    rows : {"none", "any", "capped", "twice"}]
ASSUME TextsAssumption ==
    \A n \in Names :
        /\ IsFiniteSet(DOMAIN n)
        /\ \A i \in DOMAIN n : n[i] # None => \/ \E b \in BOOLEAN : n[i] = <<"word", n[i][2], b>>
                                             \/ n[i] = <<"digits", n[i][2]>>
ASSUME FeaturesAssumption ==
    /\ IsFiniteSet(Features) /\ Features \subseteq Int
    /\ Categories \subseteq Nat \ {0} /\ Scores \subseteq Int
ASSUME PoolAssumption ==
    /\ IsFiniteSet(Slots) /\ Connections # {} /\ Threads \in Nat \ {0}
    /\ None \notin Slots \cup Connections \cup Tenants
    /\ Tenants \cap {"null", "empty"} = {}

VARIABLES
    subject,
    now, counter, reachable, step, passed, refused, disturbed,
    setting, request, loop,
    account, happened, events, mirror, hook, asker, claims, astray,
    comments, begun, widgets, people, post, raced,
    kept, reader, asks,
    drafting, candidates, selected, left, aiUsed, cursor, placed,
    cleaning, origin, frame, dtype, log,
    training, column, task, features, scores, best, importance

R == INSTANCE RateLimit
S == INSTANCE Sessions WITH Requests <- Slots, Workspaces <- Tenants
M == INSTANCE UserMirror WITH users <- mirror, call <- asker
C == INSTANCE Comments
A == INSTANCE Answers
G == INSTANCE Generator WITH stage <- drafting
K == INSTANCE Cleaning WITH stage <- cleaning
T == INSTANCE Training WITH stage <- training

limitVars == <<now, counter, reachable, step, passed, refused, disturbed>>
sessionVars == <<setting, request, loop>>
mirrorVars == <<account, happened, events, mirror, hook, asker, claims, astray>>
commentVars == <<comments, begun, widgets, people, post, raced>>
answerVars == <<kept, reader, asks>>
draftVars == <<drafting, candidates, selected, left, aiUsed, cursor, placed>>
cleanVars == <<cleaning, origin, frame, dtype, log>>
trainVars == <<training, column, task, features, scores, best, importance>>
all == <<vars, subject, limitVars, sessionVars, mirrorVars, commentVars, answerVars, draftVars,
         cleanVars, trainVars>>

Subjects == {"access", "rate limit", "sessions", "user mirror", "comments", "answers",
             "generator", "cleaning", "training"}

\* Where the components with several initial states rest while they are not the subject.
AccessRests ==
    /\ users = {} /\ role = [w \in Workspaces |-> [u \in Users |-> None]]
    /\ org = [plan |-> "pro", list |-> {}] /\ key = [k \in Keys |-> NoKey]
    /\ call = [c \in Callers |-> NoCall] /\ admin = [d \in Admins |-> NoAdmin]
    /\ grounds = [c \in Callers |-> {}] /\ changes = 0
CleaningRests ==
    /\ cleaning = "apply" /\ origin = <<>> /\ frame = <<>> /\ dtype = <<>> /\ log = <<>>
TrainingRests ==
    /\ training = "ask" /\ column = <<>> /\ task = None /\ features = <<>> /\ scores = <<>>
    /\ best = 0 /\ importance = <<>>

InitAll ==
    /\ subject \in Subjects
    /\ IF subject = "access" THEN Init ELSE AccessRests
    /\ R!Init /\ S!Init /\ M!Init /\ C!Init /\ A!Init /\ G!Init
    /\ IF subject = "cleaning" THEN K!Init ELSE CleaningRests
    /\ IF subject = "training" THEN T!Init ELSE TrainingRests

\* A step is one of the subject, and leaves everything else as it is.
NextAll ==
    \/ /\ subject = "access" /\ Next
       /\ UNCHANGED <<subject, limitVars, sessionVars, mirrorVars, commentVars, answerVars,
                      draftVars, cleanVars, trainVars>>
    \/ /\ subject = "rate limit" /\ R!Next
       /\ UNCHANGED <<subject, vars, sessionVars, mirrorVars, commentVars, answerVars,
                      draftVars, cleanVars, trainVars>>
    \/ /\ subject = "sessions" /\ S!Next
       /\ UNCHANGED <<subject, vars, limitVars, mirrorVars, commentVars, answerVars,
                      draftVars, cleanVars, trainVars>>
    \/ /\ subject = "user mirror" /\ M!Next
       /\ UNCHANGED <<subject, vars, limitVars, sessionVars, commentVars, answerVars,
                      draftVars, cleanVars, trainVars>>
    \/ /\ subject = "comments" /\ C!Next
       /\ UNCHANGED <<subject, vars, limitVars, sessionVars, mirrorVars, answerVars,
                      draftVars, cleanVars, trainVars>>
    \/ /\ subject = "answers" /\ A!Next
       /\ UNCHANGED <<subject, vars, limitVars, sessionVars, mirrorVars, commentVars,
                      draftVars, cleanVars, trainVars>>
    \/ /\ subject = "generator" /\ G!Next
       /\ UNCHANGED <<subject, vars, limitVars, sessionVars, mirrorVars, commentVars,
                      answerVars, cleanVars, trainVars>>
    \/ /\ subject = "cleaning" /\ K!Next
       /\ UNCHANGED <<subject, vars, limitVars, sessionVars, mirrorVars, commentVars,
                      answerVars, draftVars, trainVars>>
    \/ /\ subject = "training" /\ T!Next
       /\ UNCHANGED <<subject, vars, limitVars, sessionVars, mirrorVars, commentVars,
                      answerVars, draftVars, cleanVars>>

SpecAll == InitAll /\ [][NextAll]_all

\* Every component's state stays within its types.
TypesOK ==
    /\ subject = "access" => TypeOK
    /\ subject = "rate limit" => R!TypeOK
    /\ subject = "sessions" => S!TypeOK
    /\ subject = "user mirror" => M!TypeOK
    /\ subject = "comments" => C!TypeOK
    /\ subject = "answers" => A!TypeOK
    /\ subject = "generator" => G!TypeOK
    /\ subject = "cleaning" => K!TypeOK
    /\ subject = "training" => T!TypeOK

\* A user's requests in one window are let through up to the limit and refused beyond it, and a
\* counter never reaches into another window (RateLimit).
LimitIsPerWindow == subject = "rate limit" => R!LimitIsPerWindow

\* No query sees another workspace's rows, whatever its connection served before (Sessions).
ConfinedToWorkspace == subject = "sessions" => S!ConfinedToWorkspace

\* No request waits on one that waits on it: connections, threads, the event loop (Sessions).
EveryRequestCanMove == subject = "sessions" => S!EveryRequestCanMove

\* The users table follows the identity provider (UserMirror).
MirrorFollows == subject = "user mirror" => M!MirrorFollows

\* Discussions stay one level deep and say who resolved them (Comments).
DiscussionIsSound == subject = "comments" => C!DiscussionIsSound

\* A computed or cached answer is of what was asked (Answers).
AnswersFit == subject = "answers" => A!AnswersFit

\* A generated dashboard's widgets fit the grid and do not overlap (Generator).
LayoutIsSound == subject = "generator" => G!LayoutIsSound

\* The log of a cleaning accounts for what it dropped and changed (Cleaning).
LineageAccounts == subject = "cleaning" => K!LineageAccounts

\* The winner is the best candidate, and a column's importance is its own (Training).
ModelIsExplained == subject = "training" => T!ModelIsExplained
=============================================================================
