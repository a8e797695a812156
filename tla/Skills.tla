-------------------------------- MODULE Skills --------------------------------
(***************************************************************************)
(* The skills marketplace: the use cases of modules/skills_marketplace     *)
(* behind api_server/app/routers/skills.py.                                *)
(*                                                                         *)
(* A skill is a row of one of three tables (its scope) and perhaps a       *)
(* document in a bucket.  A request is one database transaction around its *)
(* reads and writes (get_db: READ COMMITTED); what it does to the bucket   *)
(* happens at once and stays.  Several requests are in flight together,    *)
(* and each may fail between any two steps.                                *)
(*                                                                         *)
(* A request changes a copy of the row it read first and saves the whole   *)
(* copy (module Merge): it may take back what another request wrote since, *)
(* and put back a row that was deleted.                                    *)
(*                                                                         *)
(* Who may ask for what (SkillApprovalPolicy, owner checks) is left out:   *)
(* any request that passes these checks is one of the requests here.       *)
(***************************************************************************)
EXTENDS Naturals, Merge

CONSTANTS Skills,        \* 1 .. n, given to new skills in this order
          NewSkills,     \* those that may be created, the others are copies (a bound)
          Seeded,        \* company skills that the database is deployed with
          SkillRequests, \* requests in flight at once
          MaxRequests,   \* requests ever made (a bound)
          NoSkill

ASSUME SkillsAssumption ==
  /\ Skills \subseteq Nat /\ NoSkill \notin Skills /\ Seeded \subseteq Skills
  /\ MaxRequests \in Nat

VARIABLES skillRow,      \* Skills -> the row, in the table of its scope
          skillDocs,     \* the skills that have a document (SKILL.md)
          request,       \* SkillRequests -> a use case on its way
          approved,      \* skill_approvals: the skills with an approval
          deletedDocs,   \* history: documents a delete request removed
          begun          \* history: how many requests were made

skillVars == <<skillRow, skillDocs, request, approved, deletedDocs, begun>>

Scopes == {"personal", "team", "company"}
States == {"DRAFT", "REVIEW", "APPROVED", "PUBLISHED", "ARCHIVED"}

(* uri names the skill whose document the row points to.                   *)
SkillRow == [scope : Scopes, state : States, uri : Skills \cup {NoSkill},
             promotedTo : Skills \cup {NoSkill}, promotedFrom : Skills \cup {NoSkill}]

Absent == [scope |-> "none", state |-> "none", uri |-> NoSkill,
           promotedTo |-> NoSkill, promotedFrom |-> NoSkill]

Row(scope, state, uri, from) ==
  [scope |-> scope, state |-> state, uri |-> uri,
   promotedTo |-> NoSkill, promotedFrom |-> from]

Operations == {"submit", "approve", "reject", "publish", "archive",
               "create", "update", "delete", "promote"}

(* row is the copy of the row that the request will save, uri the document *)
(* of the copy a promotion makes; then the columns that the save will      *)
(* write, and whether merge found a row.                                   *)
Idle == [op |-> "none", pc |-> "idle", skill |-> NoSkill, new |-> NoSkill,
         row |-> Absent, uri |-> NoSkill, cols |-> {}, found |-> FALSE]

(* The seed publishes its skills without asking anyone.                    *)
SkillsInit ==
  /\ skillRow = [s \in Skills |-> IF s \in Seeded
                                  THEN Row("company", "PUBLISHED", NoSkill, NoSkill)
                                  ELSE Absent]
  /\ skillDocs = {}
  /\ request = [q \in SkillRequests |-> Idle]
  /\ approved = {} /\ deletedDocs = {} /\ begun = 0

Exists(s) == skillRow[s] # Absent
Used(s) == \/ Exists(s) \/ s \in skillDocs \cup deletedDocs \cup approved
           \/ \E r \in Skills : skillRow[r].promotedFrom = s
           \/ \E q \in SkillRequests : s \in {request[q].skill, request[q].new}
NextSkill(s) == ~Used(s) /\ \A r \in Skills : r < s => Used(r)

-----------------------------------------------------------------------------
(* Fault: a reviewed skill may be published without having been approved.  *)
TransitionsUnapproved ==
  [DRAFT     |-> {"REVIEW"},
   REVIEW    |-> {"APPROVED", "PUBLISHED", "DRAFT"},
   APPROVED  |-> {"PUBLISHED", "DRAFT"},
   PUBLISHED |-> {"ARCHIVED"},
   ARCHIVED  |-> {"DRAFT", "PUBLISHED"}]

(* _TRANSITIONS of SkillLifecycle, and the state each operation asks for.  *)
(* A restore is the publication of a personal skill.                       *)
Transitions ==
  [DRAFT     |-> {"REVIEW"},
   REVIEW    |-> {"APPROVED", "DRAFT"},
   APPROVED  |-> {"PUBLISHED", "DRAFT"},
   PUBLISHED |-> {"ARCHIVED"},
   ARCHIVED  |-> {"DRAFT", "PUBLISHED"}]

TargetState(op) ==
  CASE op = "submit"  -> "REVIEW"
    [] op = "approve" -> "APPROVED"
    [] op = "reject"  -> "DRAFT"
    [] op = "publish" -> "PUBLISHED"
    [] op = "archive" -> "ARCHIVED"

NextScope == [personal |-> "team", team |-> "company"]

Begin(q, op, pc, s, new, row) ==
  /\ begun < MaxRequests /\ begun' = begun + 1
  /\ request' = [request EXCEPT ![q] = [op |-> op, pc |-> pc, skill |-> s, new |-> new,
                                        row |-> row, uri |-> row.uri,
                                        cols |-> {}, found |-> FALSE]]
Continue(q, x) == request' = [request EXCEPT ![q] = x] /\ UNCHANGED begun
Proceed(q, pc) == Continue(q, [request[q] EXCEPT !.pc = pc])
Answer(q) == Continue(q, Idle)

RowsUnchanged == UNCHANGED <<skillRow, approved>>
DocsUnchanged == UNCHANGED <<skillDocs, deletedDocs>>

(* What may be asked of a row as it was read.                              *)
Accepts(row, op) ==
  CASE op = "archive" ->
         row.scope = "personal" /\ TargetState(op) \in Transitions[row.state]
    [] op = "update"  -> row.scope = "personal"
    [] op = "delete"  -> row.scope = "personal" /\ row.state = "DRAFT"
    [] op = "promote" -> row.scope \in DOMAIN NextScope
    [] OTHER -> TargetState(op) \in Transitions[row.state]

(* The use case reads the row, checks it and changes its copy.             *)
ReadSkill(q, s, op) ==
  /\ request[q].pc = "idle" /\ op \notin {"create", "promote"}
  /\ Exists(s) /\ Accepts(skillRow[s], op)
  /\ IF op \in {"update", "delete"}
     THEN Begin(q, op, "bucket", s, NoSkill, skillRow[s])
     ELSE Begin(q, op, "write", s, NoSkill, [skillRow[s] EXCEPT !.state = TargetState(op)])
  /\ RowsUnchanged /\ DocsUnchanged

ReadForPromotion(q, s, new) ==
  /\ request[q].pc = "idle"
  /\ Exists(s) /\ Accepts(skillRow[s], "promote") /\ NextSkill(new)
  /\ Begin(q, "promote", "bucket", s, new, [skillRow[s] EXCEPT !.promotedTo = new])
  /\ RowsUnchanged /\ DocsUnchanged

(* A new skill: its document first, if it has one.                         *)
CreateSkill(q, new) ==
  /\ request[q].pc = "idle" /\ NextSkill(new) /\ new \in NewSkills
  /\ \E uri \in {new, NoSkill} :
       /\ skillDocs' = IF uri = new THEN skillDocs \cup {new} ELSE skillDocs
       /\ Begin(q, "create", "write", NoSkill, new, Row("personal", "DRAFT", uri, NoSkill))
  /\ RowsUnchanged /\ UNCHANGED deletedDocs

-----------------------------------------------------------------------------
(* New instructions replace the document, and the row is saved if its path *)
(* or another field changes; without instructions only the row is saved.   *)
UpdateDocument(q) ==
  LET s == request[q].skill IN
  /\ request[q].pc = "bucket" /\ request[q].op = "update"
  /\ \/ /\ skillDocs' = skillDocs \cup {s}
        /\ \/ Continue(q, [request[q] EXCEPT !.pc = "write", !.row.uri = s])
           \/ request[q].row.uri = s /\ Answer(q)
     \/ UNCHANGED skillDocs /\ Proceed(q, "write")
  /\ RowsUnchanged /\ UNCHANGED deletedDocs

(* The document goes before the row, so that a failure can be retried.     *)
DeleteDocument(q) ==
  /\ request[q].pc = "bucket" /\ request[q].op = "delete"
  /\ IF request[q].row.uri = NoSkill
     THEN DocsUnchanged
     ELSE /\ skillDocs' = skillDocs \ {request[q].skill}
          /\ deletedDocs' = deletedDocs \cup {request[q].skill}
  /\ Proceed(q, "write") /\ RowsUnchanged

(* Fault: the copy keeps the path of the original's document.              *)
CopyDocumentNowhere(q) ==
  /\ request[q].pc = "bucket" /\ request[q].op = "promote"
  /\ Continue(q, [request[q] EXCEPT !.pc = "write", !.uri = request[q].new])
  /\ RowsUnchanged /\ DocsUnchanged

(* A promotion copies the document under the new skill's name; if there is *)
(* none to copy, the copy points where the original pointed.               *)
CopyDocument(q) ==
  /\ request[q].pc = "bucket" /\ request[q].op = "promote"
  /\ IF request[q].skill \in skillDocs
     THEN /\ skillDocs' = skillDocs \cup {request[q].new}
          /\ Continue(q, [request[q] EXCEPT !.pc = "write", !.uri = request[q].new])
     ELSE Proceed(q, "write") /\ UNCHANGED skillDocs
  /\ RowsUnchanged /\ UNCHANGED deletedDocs

-----------------------------------------------------------------------------
(* The save begins: merge reads the row again.                             *)
MergeReadsSkill(q) ==
  LET copy == request[q].row  now == skillRow[request[q].skill] IN
  /\ request[q].pc = "write" /\ request[q].op \notin {"create", "delete"}
  /\ Continue(q, [request[q] EXCEPT
       !.pc = "writing", !.found = (now # Absent),
       !.cols = IF now = Absent THEN {}
                ELSE Marked("state", copy.state, now.state) \cup
                     Marked("uri", copy.uri, now.uri) \cup
                     Marked("promotedTo", copy.promotedTo, now.promotedTo)])
  /\ RowsUnchanged /\ DocsUnchanged

(* An INSERT of a row that came since, or an UPDATE of one that went,      *)
(* raises; only Abandon is left then.                                      *)
CanSave(q, ops) ==
  /\ request[q].pc = "writing" /\ request[q].op \in ops
  /\ request[q].found <=> Exists(request[q].skill)

(* The row after the save; its scope and origin never change.              *)
Saved(q) ==
  LET x == request[q]  now == skillRow[x.skill] IN
  IF ~x.found THEN x.row
  ELSE [x.row EXCEPT
         !.state = Written("state", x.cols, x.row.state, now.state),
         !.uri = Written("uri", x.cols, x.row.uri, now.uri),
         !.promotedTo = Written("promotedTo", x.cols, x.row.promotedTo, now.promotedTo)]

(* One transaction each: the row, and for a decision its record.           *)
WriteState(q) ==
  LET s == request[q].skill IN
  /\ CanSave(q, {"submit", "approve", "reject", "publish", "archive"})
  /\ skillRow' = [skillRow EXCEPT ![s] = Saved(q)]
  /\ approved' = IF request[q].op = "approve" THEN approved \cup {s} ELSE approved
  /\ Answer(q) /\ DocsUnchanged

WriteUpdate(q) ==
  /\ CanSave(q, {"update"})
  /\ skillRow' = [skillRow EXCEPT ![request[q].skill] = Saved(q)]
  /\ Answer(q) /\ DocsUnchanged /\ UNCHANGED approved

(* The row of a promotion's copy: saved as DRAFT and then submitted.       *)
CopyOf(q) == Row(NextScope[request[q].row.scope], "REVIEW", request[q].uri, request[q].skill)

(* Fault: the mark is committed before the copy, and the copy may fail.    *)
WritePromotionInTwo(q) ==
  LET s == request[q].skill IN
  /\ CanSave(q, {"promote"})
  /\ skillRow' \in {[skillRow EXCEPT ![s] = Saved(q)],
                    [skillRow EXCEPT ![s] = Saved(q), ![request[q].new] = CopyOf(q)]}
  /\ Answer(q) /\ DocsUnchanged /\ UNCHANGED approved

(* The copy, then the original with its mark: one transaction.             *)
WritePromotion(q) ==
  /\ CanSave(q, {"promote"})
  /\ skillRow' = [skillRow EXCEPT ![request[q].new] = CopyOf(q),
                                 ![request[q].skill] = Saved(q)]
  /\ Answer(q) /\ DocsUnchanged /\ UNCHANGED approved

(* A new id needs no second read.                                          *)
WriteNew(q) ==
  /\ request[q].pc = "write" /\ request[q].op = "create"
  /\ skillRow' = [skillRow EXCEPT ![request[q].new] = request[q].row]
  /\ Answer(q) /\ DocsUnchanged /\ UNCHANGED approved

(* A DELETE of a row that is gone does nothing.                            *)
DeleteRow(q) ==
  /\ request[q].pc = "write" /\ request[q].op = "delete"
  /\ skillRow' = [skillRow EXCEPT ![request[q].skill] = Absent]
  /\ Answer(q) /\ DocsUnchanged /\ UNCHANGED approved

(* The bucket or the database fails, or the server dies: rollback.         *)
Abandon(q) ==
  /\ request[q].pc # "idle"
  /\ Answer(q) /\ RowsUnchanged /\ DocsUnchanged

SkillsNext ==
  \E q \in SkillRequests :
    \/ \E s \in Skills, op \in Operations : ReadSkill(q, s, op)
    \/ \E s, new \in Skills : ReadForPromotion(q, s, new)
    \/ \E new \in Skills : CreateSkill(q, new)
    \/ UpdateDocument(q) \/ DeleteDocument(q) \/ CopyDocument(q)
    \/ MergeReadsSkill(q) \/ WriteState(q) \/ WriteNew(q) \/ WriteUpdate(q)
    \/ DeleteRow(q) \/ WritePromotion(q) \/ Abandon(q)

SkillsSpec == SkillsInit /\ [][SkillsNext]_skillVars

-----------------------------------------------------------------------------
SkillsTypeOK ==
  /\ skillRow \in [Skills -> SkillRow \cup {Absent}]
  /\ skillDocs \subseteq Skills
  /\ request \in [SkillRequests ->
       [op : Operations \cup {"none"}, pc : {"idle", "bucket", "write", "writing"},
        skill : Skills \cup {NoSkill}, new : Skills \cup {NoSkill},
        row : SkillRow \cup {Absent}, uri : Skills \cup {NoSkill},
        cols : SUBSET {"state", "uri", "promotedTo"}, found : BOOLEAN]]
  /\ approved \subseteq Skills /\ deletedDocs \subseteq Skills /\ begun \in Nat

(* A skill marked as promoted is hidden from searches in favour of its     *)
(* copy, so the copy is there, one scope up, and knows the original,       *)
(* whatever was deleted, put back by a stale save, promoted twice or       *)
(* rolled back meanwhile.                                                  *)
MarkFollowsCopy ==
  \A s \in Skills : skillRow[s].promotedTo # NoSkill =>
    LET copy == skillRow[skillRow[s].promotedTo] IN
    copy.promotedFrom = s /\ copy.scope = NextScope[skillRow[s].scope]

(* The document a row points to exists, unless a delete request took it:   *)
(* files are written before rows and survive rollbacks.                    *)
PathHasDocument ==
  \A s \in Skills : skillRow[s].uri # NoSkill =>
    skillRow[s].uri \in skillDocs \cup deletedDocs

(* Whatever decisions race, come late or are taken back by a stale save, a *)
(* skill that is or was published has an approval on record, and a         *)
(* promoted copy has one of its own; the seeded skills alone have none.    *)
PublishedWasApproved ==
  \A s \in Skills \ Seeded :
    skillRow[s].state \in {"PUBLISHED", "ARCHIVED"} => s \in approved
=============================================================================
