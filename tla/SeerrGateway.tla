---------------------------- MODULE SeerrGateway ----------------------------
(***************************************************************************)
(* The Seerr gateway (gateways/seerr) on one issue: the comments the host   *)
(* posts, edits and deletes there, the webhook of each comment, and the     *)
(* check of its author against the issue's reporter and Seerr's users.      *)
(*                                                                         *)
(* A comment's id is its place in the issue's comments. The first one is    *)
(* the report. People do not delete comments.                              *)
(***************************************************************************)
EXTENDS Naturals, Sequences, FiniteSets, FiniteSetsExt

CONSTANTS
  Post,         \* comments the host shows: a status, a notice or a reply each
  Account, reporter,
  email, name,  \* account |-> what its webhooks say of it
  NoEmail,
  botName,      \* BOT_USERNAME
  UserPage,     \* users one listing returns at most
  MaxComments,  \* of a context
  MaxSaved,     \* comments of the issue (bound)
  MaxSaid,      \* of people (bound)
  MaxLate,      \* requests of one post on their way with nobody waiting (bound)
  MaxGrants     \* changes of a permission (bound)

ASSUME SeerrAssumption ==
  /\ Post \cap Account = {}
  /\ IsFiniteSet(Account) /\ reporter \in Account
  /\ UserPage \in Nat /\ MaxLate \in Nat
  /\ \A one, two \in Account : email[one] = email[two] /\ email[one] # NoEmail => one = two

VARIABLES
  \* Seerr
  comments,     \* who wrote each
  signed,       \* those whose text carries the host's signature
  deleted,
  users,        \* its accounts
  holds,        \* account |-> "none", "manage" or "admin"
  grants,
  \* the host
  posting,      \* the posts that hold the permit
  call,         \* post |-> its request
  late,         \* post |-> its requests that were given up and may be saved yet
  made,         \* post |-> the comment its request was saved as, or 0
  marker,       \* post |-> the id it took for its own; 0 is none
  access        \* comment |-> where the check of its author is

seerrVars == <<comments, signed, deleted, users, holds, grants>>
postVars == <<posting, call, late, made, marker>>
issueVars == <<seerrVars, postVars, access>>

Ids == DOMAIN comments

SeerrInit ==
  /\ comments = <<reporter>> /\ signed = {} /\ deleted = {}
  /\ users \in {some \in SUBSET Account : reporter \in some}
  /\ holds = [who \in Account |-> "none"]
  /\ grants = 0
  /\ posting = {}
  /\ call = [p \in Post |-> "idle"]
  /\ late = [p \in Post |-> 0]
  /\ made = [p \in Post |-> 0]
  /\ marker = [p \in Post |-> 0]
  /\ access = <<"member">>

-----------------------------------------------------------------------------
(* Showing and retracting. *)

Saves(who) ==
  /\ Len(comments) < MaxSaved
  /\ comments' = Append(comments, who)
  /\ access' = Append(access, "unheard")

BugNoPermit == TRUE
PermitFree == posting = {}

(* A post is sent whenever its marker has no id: again, when the last try  *)
(* failed or was given up, though that one may still be saved.             *)
Shows(p) ==
  /\ marker[p] = 0 /\ call[p] = "idle" /\ PermitFree
  /\ posting' = posting \cup {p}
  /\ call' = [call EXCEPT ![p] = "asked"]
  /\ UNCHANGED <<seerrVars, late, made, marker, access>>

Saved(p) ==
  /\ Saves(p)
  /\ signed' = signed \cup {Len(comments) + 1}
  /\ UNCHANGED <<deleted, users, holds, grants, posting, marker>>

Posted(p) ==
  /\ call[p] = "asked"
  /\ Saved(p)
  /\ call' = [call EXCEPT ![p] = "saved"]
  /\ made' = [made EXCEPT ![p] = Len(comments) + 1]
  /\ UNCHANGED late

(* Seerr saves it after the host stopped waiting: nobody hears of its id.  *)
Arrives(p) ==
  /\ late[p] > 0
  /\ Saved(p)
  /\ late' = [late EXCEPT ![p] = @ - 1]
  /\ UNCHANGED <<call, made>>

(* The answer lists the issue's comments: the newest is taken for it.       *)
Answered(p) ==
  /\ call[p] = "saved"
  /\ call' = [call EXCEPT ![p] = "idle"]
  /\ marker' = [marker EXCEPT ![p] = Max(Ids \ deleted)]
  /\ posting' = posting \ {p}
  /\ UNCHANGED <<seerrVars, late, made, access>>

(* A refusal, a lost answer, or no answer in 30 seconds: the permit is free *)
(* again, whatever becomes of the request.                                 *)
GivesUp(p) ==
  /\ call[p] \in {"asked", "saved"}
  /\ call' = [call EXCEPT ![p] = "idle"]
  /\ made' = [made EXCEPT ![p] = 0]
  /\ \/ UNCHANGED late
     \/ call[p] = "asked" /\ late[p] < MaxLate /\ late' = [late EXCEPT ![p] = @ + 1]
  /\ posting' = posting \ {p}
  /\ UNCHANGED <<seerrVars, marker, access>>

Edits(p) ==
  /\ marker[p] \in Ids \ deleted
  /\ signed' = signed \cup {marker[p]}
  /\ UNCHANGED <<comments, deleted, users, holds, grants, postVars, access>>

Retracts(p) ==
  /\ marker[p] \in Ids \ deleted
  /\ deleted' = deleted \cup {marker[p]}
  /\ UNCHANGED <<comments, signed, users, holds, grants, postVars, access>>

-----------------------------------------------------------------------------
(* The webhook of a comment, and the check of its author.                   *)

(* Email decides when both sides have one; names are compared otherwise.    *)
Matches(user, who) ==
  IF email[user] # NoEmail /\ email[who] # NoEmail THEN email[user] = email[who]
  ELSE name[user] = name[who]

BugFirstMatch(listed, who) == \E user \in listed : Matches(user, who) /\ holds[user] = "admin"

(* One account alone matches, and the listing left none out.                *)
SoleAdmin(listed, who) ==
  /\ \E user \in listed :
       holds[user] = "admin" /\ {other \in listed : Matches(other, who)} = {user}
  /\ Cardinality(listed) < UserPage

Listings == {listed \in SUBSET users : Cardinality(listed) = Min({UserPage, Cardinality(users)})}

(* The host's own comments carry its signature, whatever account posts      *)
(* them; an account with the bot's name is taken for the bot's.             *)
IsBotComment(id) == comments[id] \in Post \/ name[comments[id]] = botName

Hears(id) ==
  /\ access[id] = "unheard"
  /\ access' = [access EXCEPT ![id] = IF IsBotComment(id) THEN "ignored" ELSE "reading"]

(* The issue is read: the reporter is a member, if not more.                *)
ReadsIssue(id) ==
  /\ access[id] = "reading"
  /\ \/ access' = [access EXCEPT ![id] = IF Matches(reporter, comments[id]) THEN "reporter" ELSE "other"]
     \/ access' = [access EXCEPT ![id] = "denied"]

(* Only the first match of the listing is asked for its rights.            *)
Rulings(id, listed) ==
  LET who == comments[id]
      found == {user \in listed : Matches(user, who)}
  IN  IF SoleAdmin(listed, who) THEN {"admin"}
      ELSE IF access[id] = "reporter" THEN {"member"}
      ELSE IF found = {} THEN {"denied"}
      ELSE {IF holds[user] = "none" THEN "denied" ELSE "member" : user \in found}

ReadsUsers(id) ==
  /\ access[id] \in {"reporter", "other"}
  /\ \/ \E listed \in Listings : \E ruling \in Rulings(id, listed) :
          access' = [access EXCEPT ![id] = ruling]
     \/ access' = [access EXCEPT ![id] = IF @ = "reporter" THEN "member" ELSE "denied"]

(* Before its run a queued comment is checked again.                        *)
ChecksAgain(id) == access[id] \in {"member", "admin"} /\ id # 1 /\ access' = [access EXCEPT ![id] = "reading"]

Checks(id) ==
  /\ Hears(id) \/ ReadsIssue(id) \/ ReadsUsers(id) \/ ChecksAgain(id)
  /\ UNCHANGED <<seerrVars, postVars>>

-----------------------------------------------------------------------------
(* The people of Seerr. *)

Comments(who) ==
  /\ Cardinality({id \in Ids : comments[id] \in Account}) < MaxSaid
  /\ Saves(who)
  /\ UNCHANGED <<signed, deleted, users, holds, grants, postVars>>

Grants(user, right) ==
  /\ grants < MaxGrants /\ holds[user] # right
  /\ grants' = grants + 1
  /\ holds' = [holds EXCEPT ![user] = right]
  /\ UNCHANGED <<comments, signed, deleted, users, postVars, access>>

(* What a prompt shows of the issue: the report, and the newest others.     *)
Selected(shown) ==
  IF Cardinality(shown) <= MaxComments THEN shown
  ELSE {Min(shown)} \cup {id \in shown : Cardinality({later \in shown : later > id}) < MaxComments - 1}
Context == Selected((Ids \ deleted) \ signed)

SeerrNext ==
  \/ \E p \in Post :
       Shows(p) \/ Posted(p) \/ Arrives(p) \/ Answered(p) \/ GivesUp(p) \/ Edits(p) \/ Retracts(p)
  \/ \E id \in Ids : Checks(id)
  \/ \E who \in users : Comments(who)
  \/ \E user \in users, right \in {"none", "manage", "admin"} : Grants(user, right)

SeerrSpec == SeerrInit /\ [][SeerrNext]_issueVars

-----------------------------------------------------------------------------
(* Properties. *)

(* What a post takes for its own is the comment it made or one saved        *)
(* between that and its answer: never another run's ("one run would then   *)
(* rewrite or delete the other's"), except one that run gave up on and      *)
(* knows nothing of, and a person's only if they wrote it in that moment.   *)
(* No other comment of a person is ever edited or deleted, and the report   *)
(* is in every context (gateway.ts:44-47, 56-69, client.ts:58-63,          *)
(* context.ts:19-23).                                                      *)
CommentsApart ==
  /\ \A p, q \in Post : p # q /\ marker[p] # 0 =>
       marker[p] # marker[q] /\ made[q] \notin made[p] .. marker[p]
  /\ \A p \in Post : marker[p] # 0 => comments[made[p]] = p /\ made[p] <= marker[p]
  /\ \A id \in signed \cup deleted : comments[id] \in Post \/ \E p \in Post : marker[p] = id
  /\ 1 \in Context

(* Vouched for by the reporter or by an account with rights: its own, or,   *)
(* where the webhook or the account has no email, one of the same name.     *)
StandsFor(user, who) ==
  /\ user = reporter \/ holds[user] # "none"
  /\ \/ user = who
     \/ NoEmail \in {email[user], email[who]} /\ name[user] = name[who]

(* A comment is let in only for the reporter or a holder of rights, with    *)
(* the one exception that names decide where an email is missing; the       *)
(* rights of an admin go only to a comment whose author is one as the users *)
(* are listed, however names coincide and rights change; the reporter is    *)
(* let in whenever the issue can be read, and the host's own comments are   *)
(* never (sender.ts:9-17, 49-53, 123-146, loop-guard.ts:5-15).              *)
SenderChecked ==
  [][\A c \in Ids : access'[c] # access[c] =>
       /\ access'[c] = "admin" => comments[c] \in Account /\ holds[comments[c]] = "admin"
       /\ access'[c] = "member" => \E user \in users : StandsFor(user, comments[c])
       /\ comments[c] = reporter /\ access[c] # "reading" => access'[c] # "denied"
       /\ comments[c] \in Post => access'[c] = "ignored"]_issueVars
=============================================================================
