------------------------------ MODULE Waitlist ------------------------------
(***************************************************************************)
(* services/api: the early-access intake.  One statement per request       *)
(* inserts a row or, for an address known in whatever spelling, updates it *)
(* with the fields the request fills in.  Requests overlap, the statement  *)
(* may throw, the answer may get lost and the client may post again.       *)
(*                                                                         *)
(* External: Postgres (a statement is atomic), whatever posts to the API.  *)
(***************************************************************************)
EXTENDS Integers, FiniteSets

CONSTANTS
  People, Spellings,   \* an address is a person's, in some spelling
  Texts,               \* what a field may say, "" included
  Left,                \* a field left out; an empty list of assets; null
  NoRow,
  Fields,              \* the fields followed, of role, assets, handle
  MaxPosts             \* bound on requests under way

VARIABLES
  rows,                \* table early_access: NoRow, or [email, fields]
  posts,               \* requests: [at, email, fields]
  given, answered      \* history: what was posted, and which fields of whom
                       \* were posted with a 201 in answer

waitVars == <<rows, posts, given, answered>>

Forms  == [Fields -> Texts \cup {Left}]
Emails == People \X Spellings
Lower(email) == email[1]

\* no entry of the table looks like its absence
ASSUME WaitlistAssumption ==
  NoRow \notin [email : Emails, fields : Forms] /\ MaxPosts \in Nat

NoPost == [at |-> "none"]
PostIds == 1..MaxPosts

-----------------------------------------------------------------------------
Post(i, email, form) ==
  /\ posts[i] = NoPost
  /\ posts' = [posts EXCEPT ![i] = [at |-> "sent", email |-> email, fields |-> form]]
  /\ given' = given \cup {<<Lower(email), f, form[f]>> : f \in {g \in Fields : form[g] # Left}}
  /\ UNCHANGED <<rows, answered>>

\* mutant: the update takes every field as it came
TakeNew(new, old) == new

\* COALESCE, and the CASE on the list's cardinality
Merge(new, old) == IF new = Left THEN old ELSE new

\* INSERT ... ON CONFLICT (lower(email)) DO UPDATE
Upserted(row, email, form) ==
  IF row = NoRow
  THEN [email |-> email, fields |-> form]
  ELSE [row EXCEPT !.fields = [f \in Fields |-> Merge(form[f], @[f])]]

Store(i) ==
  /\ posts[i].at = "sent"
  /\ LET p == Lower(posts[i].email) IN
     rows' = [rows EXCEPT ![p] = Upserted(@, posts[i].email, posts[i].fields)]
  /\ posts' = [posts EXCEPT ![i].at = "stored"]
  /\ UNCHANGED <<given, answered>>

\* 201
Created(i) ==
  /\ posts[i].at = "stored"
  /\ answered' = answered \cup
       {<<Lower(posts[i].email), f>> : f \in {g \in Fields : posts[i].fields[g] # Left}}
  /\ posts' = [posts EXCEPT ![i] = NoPost]
  /\ UNCHANGED <<rows, given>>

\* 400 for a payload outside the schema or with the honeypot filled in, 429
\* over the rate limit, 500 when the statement throws
Refuse(i) ==
  /\ posts[i].at = "sent"
  /\ posts' = [posts EXCEPT ![i] = NoPost]
  /\ UNCHANGED <<rows, given, answered>>

\* the server stops before it answers, or the answer is lost: the client
\* posts the same again, or does not
LoseAnswer(i) ==
  /\ posts[i].at = "stored"
  /\ posts' = [posts EXCEPT ![i] = NoPost] \/ posts' = [posts EXCEPT ![i].at = "sent"]
  /\ UNCHANGED <<rows, given, answered>>

-----------------------------------------------------------------------------
WaitInit ==
  /\ rows = [p \in People |-> NoRow]
  /\ posts = [i \in PostIds |-> NoPost]
  /\ given = {} /\ answered = {}

WaitNext ==
  \E i \in PostIds :
    \/ \E email \in Emails, form \in Forms : Post(i, email, form)
    \/ Store(i) \/ Created(i) \/ Refuse(i) \/ LoseAnswer(i)

WaitSpec == WaitInit /\ [][WaitNext]_waitVars

\* GET /early-access/count
SignupCount == Cardinality({p \in People : rows[p] # NoRow})

-----------------------------------------------------------------------------
(* Properties *)

\* What somebody was told is recorded stays recorded, and is theirs: whatever
\* overlaps, is repeated or comes in another spelling of the address, a field
\* once answered with 201 holds what one of their own posts says.
SignupKept ==
  \A p \in People, f \in Fields :
    <<p, f>> \in answered => rows[p] # NoRow /\ <<p, f, rows[p].fields[f]>> \in given
=============================================================================
