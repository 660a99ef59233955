----------------------------- MODULE Approvals -----------------------------
(***************************************************************************)
(* ApprovalEngine and its stores (src/src/approval/): one-use, expiring    *)
(* authorizations, each for one subject - a tool and the hash of its       *)
(* arguments.  Every operation is a single store call, so each is an       *)
(* action.  A request's id is its position in the sequence.                *)
(***************************************************************************)
EXTENDS Naturals, Sequences

CONSTANT Subjects       \* what can be approved: a tool with its exact arguments

VARIABLE approvals

ApprovalRecords ==
    [subject : Subjects, approved : BOOLEAN, rejected : BOOLEAN,
     consumed : BOOLEAN, expired : BOOLEAN]

ApprovalsType == approvals \in Seq(ApprovalRecords)

ApprovalsInit == approvals = << >>

Ids == DOMAIN approvals

Undecided(a) ==
    ~approvals[a].approved /\ ~approvals[a].rejected /\ ~approvals[a].consumed

Request(subject) ==
    approvals' = Append(approvals,
        [subject |-> subject, approved |-> FALSE, rejected |-> FALSE,
         consumed |-> FALSE, expired |-> FALSE])

Approve(a) ==
    /\ Undecided(a) /\ ~approvals[a].expired
    /\ approvals' = [approvals EXCEPT ![a].approved = TRUE]

\* Unlike approval, rejection does not look at the expiry.
Reject(a) ==
    /\ Undecided(a)
    /\ approvals' = [approvals EXCEPT ![a].rejected = TRUE]

\* The engine compares the subject with the one requested, both immutable, and
\* the store then consumes the approval in one conditional update.
Consumable(a, subject) ==
    /\ approvals[a].subject = subject
    /\ approvals[a].approved /\ ~approvals[a].rejected
    /\ ~approvals[a].consumed /\ ~approvals[a].expired

Consume(a) == approvals' = [approvals EXCEPT ![a].consumed = TRUE]

\* The clock passes expiresAt.
Expire(a) ==
    /\ ~approvals[a].expired
    /\ approvals' = [approvals EXCEPT ![a].expired = TRUE]
============================================================================
