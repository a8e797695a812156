----------------------------- MODULE StoresProofs -----------------------------
(***************************************************************************)
(* What the stores promise, for any number of skills, requests, tasks,     *)
(* containers, nodes and files: the marketplace, the documents and their   *)
(* analyses, the personal memory, the OAuth connection, and the four of    *)
(* them together.                                                          *)
(***************************************************************************)
EXTENDS Stores, TLAPS

-----------------------------------------------------------------------------
(* The marketplace: marks follow copies, paths have documents and what is  *)
(* published was approved.                                                 *)

Kept == skillDocs \cup deletedDocs

Decided == {"APPROVED", "PUBLISHED", "ARCHIVED"}

RequestStates ==
  [op : Operations \cup {"none"}, pc : {"idle", "bucket", "write", "writing"},
   skill : Skills \cup {NoSkill}, new : Skills \cup {NoSkill},
   row : SkillRow \cup {Absent}, uri : Skills \cup {NoSkill},
   cols : SUBSET {"state", "uri", "promotedTo"}, found : BOOLEAN]

(* The mark in a row of skill s, or in a copy of it, has its copy.         *)
MarkFits(row, s, rows) ==
  row.promotedTo # NoSkill =>
    /\ row.promotedTo \in Skills
    /\ row.scope \in {"personal", "team"}
    /\ rows[row.promotedTo].promotedFrom = s
    /\ rows[row.promotedTo].scope = NextScope[row.scope]

(* A row: decided on before it is published, its document kept, a mark     *)
(* that fits, and no origin if it is personal.                             *)
RowOK(row, s, rows, kept, known) ==
  /\ row.state \in Decided => s \in known
  /\ row.uri # NoSkill => row.uri \in kept
  /\ MarkFits(row, s, rows)
  /\ row.scope = "personal" => row.promotedFrom = NoSkill

(* A copy of the row of s still has its scope and origin; only a personal  *)
(* row may have gone meanwhile.                                            *)
SameSkill(row, s, rows) ==
  \/ rows[s].scope = row.scope /\ rows[s].promotedFrom = row.promotedFrom
  \/ rows[s] = Absent /\ row.scope = "personal"

(* What a request took from the row it read still holds when it writes.    *)
RequestOK(x, rows, kept, known) ==
  /\ x.pc = "idle" => x = Idle
  /\ x.pc # "idle" => x.op # "none" /\ x.row \in SkillRow
  /\ IF x.op \in {"none", "create"} THEN x.skill = NoSkill
     ELSE x.skill \in Skills /\ SameSkill(x.row, x.skill, rows)
  /\ IF x.op \in {"create", "promote"}
     THEN x.new \in Skills /\ rows[x.new] = Absent
     ELSE x.new = NoSkill /\ MarkFits(x.row, x.skill, rows)
  /\ x.op = "create" => /\ x.row.state = "DRAFT" /\ x.row.promotedTo = NoSkill
                        /\ x.row.scope = "personal"
  /\ x.op = "promote" => x.row.scope \in {"personal", "team"} /\ x.row.promotedTo = x.new
  /\ x.op = "delete" => x.row.scope = "personal"
  /\ x.row.scope = "personal" => x.row.promotedFrom = NoSkill
  /\ x.row.state \in Decided => x.skill \in known \/ x.op = "approve"
  /\ x.row.uri # NoSkill => x.row.uri \in kept
  /\ x.uri # NoSkill => x.uri \in kept

(* The id a request reserved is nobody else's.                             *)
Reserved(requests) ==
  \A q, r \in SkillRequests : requests[q].new # NoSkill =>
    /\ requests[r].skill # requests[q].new
    /\ r # q => requests[r].new # requests[q].new

SkillsInv ==
  /\ skillRow \in [Skills -> SkillRow \cup {Absent}]
  /\ skillDocs \subseteq Skills /\ deletedDocs \subseteq Skills /\ approved \subseteq Skills
  /\ request \in [SkillRequests -> RequestStates] /\ begun \in Nat
  /\ \A s \in Skills : RowOK(skillRow[s], s, skillRow, Kept, approved \cup Seeded)
  /\ \A q \in SkillRequests : RequestOK(request[q], skillRow, Kept, approved \cup Seeded)
  /\ Reserved(request)

LEMMA IdleFits ==
  ASSUME NEW rows, NEW kept, NEW known
  PROVE  Idle \in RequestStates /\ RequestOK(Idle, rows, kept, known)
BY DEF Idle, Absent, RequestStates, RequestOK, MarkFits, Operations, Decided

LEMMA SkillsInitially == SkillsInit => SkillsInv
<1> SUFFICES ASSUME SkillsInit PROVE SkillsInv
  OBVIOUS
<1> DEFINE seed == Row("company", "PUBLISHED", NoSkill, NoSkill)
<1>1. /\ seed \in SkillRow /\ seed.uri = NoSkill /\ seed.promotedTo = NoSkill
      /\ seed.scope = "company"
  BY DEF Row, SkillRow, Scopes, States
<1> HIDE DEF seed
<1>2. /\ skillRow \in [Skills -> SkillRow \cup {Absent}]
      /\ \A s \in Skills : skillRow[s] = IF s \in Seeded THEN seed ELSE Absent
  BY <1>1 DEF SkillsInit, seed
<1>3. \A s \in Skills : RowOK(skillRow[s], s, skillRow, Kept, approved \cup Seeded)
  BY <1>1, <1>2 DEF RowOK, MarkFits, Absent, Decided
<1>4. /\ request \in [SkillRequests -> RequestStates]
      /\ \A q \in SkillRequests : request[q] = Idle
  BY IdleFits DEF SkillsInit
<1>5. Reserved(request)
  BY <1>4 DEF Reserved, Idle
<1> QED BY <1>2, <1>3, <1>4, <1>5, IdleFits DEF SkillsInit, SkillsInv

-----------------------------------------------------------------------------
(* A step of one request that writes no row.                               *)
LEMMA RequestMoves ==
  ASSUME SkillsInv, NEW q \in SkillRequests, NEW x \in RequestStates,
         request' = [request EXCEPT ![q] = x], RowsUnchanged, begun' \in Nat,
         skillDocs' \subseteq Skills, deletedDocs' \subseteq Skills, Kept \subseteq Kept',
         RequestOK(x, skillRow, Kept', approved \cup Seeded), Reserved(request')
  PROVE  SkillsInv'
<1>1. skillRow' = skillRow /\ approved' = approved
  BY DEF RowsUnchanged
<1>2. \A s \in Skills : RowOK(skillRow[s], s, skillRow, Kept, approved \cup Seeded)
  BY DEF SkillsInv
<1>3. \A s \in Skills : RowOK(skillRow[s], s, skillRow, Kept, approved \cup Seeded)'
  BY <1>1, <1>2 DEF RowOK, MarkFits
<1>4. request' \in [SkillRequests -> RequestStates]
        /\ \A r \in SkillRequests : request'[r] = IF r = q THEN x ELSE request[r]
  BY DEF SkillsInv
<1>5. \A r \in SkillRequests : RequestOK(request[r], skillRow, Kept, approved \cup Seeded)
  BY DEF SkillsInv
<1>6. \A r \in SkillRequests : RequestOK(request[r], skillRow, Kept', approved \cup Seeded)
  BY <1>5 DEF RequestOK
<1>7. \A r \in SkillRequests : RequestOK(request[r], skillRow, Kept, approved \cup Seeded)'
  BY <1>1, <1>4, <1>6
<1> QED BY <1>1, <1>3, <1>4, <1>7 DEF SkillsInv

(* Such a step that keeps the ids of its request reserves nothing new.     *)
LEMMA SameIds ==
  ASSUME SkillsInv, NEW q \in SkillRequests, NEW x \in RequestStates,
         request' = [request EXCEPT ![q] = x],
         x.skill = request[q].skill, x.new = request[q].new
  PROVE  Reserved(request')
<1>1. \A r \in SkillRequests : /\ request'[r].skill = request[r].skill
                               /\ request'[r].new = request[r].new
  BY DEF SkillsInv
<1> QED BY <1>1 DEF SkillsInv, Reserved

LEMMA ReservedIdle ==
  ASSUME SkillsInv, NEW q \in SkillRequests, Answer(q)
  PROVE  Reserved(request')
<1>1. \A r \in SkillRequests : request'[r] = IF r = q THEN Idle ELSE request[r]
  BY DEF SkillsInv, Answer, Continue
<1>2. Idle.skill = NoSkill /\ Idle.new = NoSkill
  BY DEF Idle
<1> QED BY <1>1, <1>2 DEF SkillsInv, Reserved

-----------------------------------------------------------------------------
(* A transaction that writes rows and answers: the rows it touches are the *)
(* one it read, which keeps its scope and origin or is personal before and *)
(* after, and the one it reserved.                                         *)
Personal(row) ==
  row.scope \in {"personal", "none"} /\ row.promotedFrom = NoSkill
    /\ (row.scope = "none" => row = Absent)

Touches(q) ==
  \A s \in Skills :
    \/ skillRow'[s] = skillRow[s]
    \/ s = request[q].new
    \/ /\ s = request[q].skill
       /\ \/ /\ skillRow'[s].scope = skillRow[s].scope
             /\ skillRow'[s].promotedFrom = skillRow[s].promotedFrom
          \/ Personal(skillRow[s]) /\ Personal(skillRow'[s])

(* What is marked stays marked, with its copy.                             *)
LEMMA MarksStay ==
  ASSUME SkillsInv, NEW q \in SkillRequests, Touches(q),
         NEW row \in SkillRow, NEW s, MarkFits(row, s, skillRow)
  PROVE  MarkFits(row, s, skillRow')
<1> SUFFICES ASSUME row.promotedTo # NoSkill PROVE MarkFits(row, s, skillRow')
  BY DEF MarkFits
<1> DEFINE p == row.promotedTo
<1>1. /\ p \in Skills /\ row.scope \in {"personal", "team"}
      /\ skillRow[p].promotedFrom = s /\ skillRow[p].scope = NextScope[row.scope]
  BY DEF MarkFits
<1>2. skillRow[p].scope \in {"team", "company"}
  BY <1>1 DEF NextScope
<1>3. p # request[q].new
  BY <1>1, <1>2, SkillsAssumption DEF SkillsInv, RequestOK, Absent
<1>4. ~Personal(skillRow[p])
  BY <1>2 DEF Personal
<1>5. skillRow'[p].scope = skillRow[p].scope
        /\ skillRow'[p].promotedFrom = skillRow[p].promotedFrom
  BY <1>1, <1>3, <1>4 DEF Touches
<1> QED BY <1>1, <1>5 DEF MarkFits

LEMMA RowsWritten ==
  ASSUME SkillsInv, NEW q \in SkillRequests, Answer(q), DocsUnchanged, Touches(q),
         skillRow' \in [Skills -> SkillRow \cup {Absent}],
         approved \subseteq approved', approved' \subseteq Skills,
         \A s \in Skills : \/ skillRow'[s] = skillRow[s]
                           \/ RowOK(skillRow'[s], s, skillRow', Kept, approved' \cup Seeded)
  PROVE  SkillsInv'
<1>1. Kept' = Kept /\ skillDocs' = skillDocs /\ deletedDocs' = deletedDocs
  BY DEF DocsUnchanged, Kept
<1>2. request' \in [SkillRequests -> RequestStates]
        /\ \A r \in SkillRequests : request'[r] = IF r = q THEN Idle ELSE request[r]
  BY IdleFits DEF SkillsInv, Answer, Continue
<1>3. ASSUME NEW s \in Skills
      PROVE  RowOK(skillRow'[s], s, skillRow', Kept, approved' \cup Seeded)
  <2>1. CASE skillRow'[s] = skillRow[s]
    <3>1. RowOK(skillRow[s], s, skillRow, Kept, approved \cup Seeded)
      BY DEF SkillsInv
    <3>2. CASE skillRow[s] = Absent
      BY <2>1, <3>2 DEF RowOK, MarkFits, Absent, Decided
    <3>3. CASE skillRow[s] \in SkillRow
      <4>1. MarkFits(skillRow[s], s, skillRow')
        BY <3>1, <3>3, MarksStay DEF RowOK
      <4> QED BY <2>1, <3>1, <4>1 DEF RowOK
    <3> QED BY <3>2, <3>3 DEF SkillsInv
  <2> QED BY <2>1
<1>4. ASSUME NEW r \in SkillRequests, r # q
      PROVE  RequestOK(request[r], skillRow', Kept, approved' \cup Seeded)
  <2> DEFINE x == request[r]
  <2>1. x \in RequestStates /\ RequestOK(x, skillRow, Kept, approved \cup Seeded)
    BY DEF SkillsInv
  <2>2. x.new # NoSkill => request[q].skill # x.new /\ request[q].new # x.new
    BY <1>4 DEF SkillsInv, Reserved
  <2>3. request[q].new # NoSkill => x.skill # request[q].new
    BY DEF SkillsInv, Reserved
  <2> SUFFICES RequestOK(x, skillRow', Kept, approved' \cup Seeded)
    OBVIOUS
  <2> HIDE DEF x
  <2>4. CASE x.pc = "idle"
    <3>1. x = Idle
      BY <2>1, <2>4 DEF RequestOK
    <3> QED BY <3>1, IdleFits
  <2>5. CASE x.pc # "idle"
    <3>1. x.row \in SkillRow /\ x.op # "none"
      BY <2>1, <2>5 DEF RequestOK
    <3>2. x.new \in Skills => skillRow'[x.new] = skillRow[x.new]
      BY <2>2, SkillsAssumption DEF Touches
    <3>3. MarkFits(x.row, x.skill, skillRow) => MarkFits(x.row, x.skill, skillRow')
      BY <3>1, MarksStay
    <3>4. ASSUME x.skill \in Skills, SameSkill(x.row, x.skill, skillRow)
          PROVE  SameSkill(x.row, x.skill, skillRow')
      <4>1. \/ skillRow'[x.skill] = skillRow[x.skill]
            \/ /\ skillRow'[x.skill].scope = skillRow[x.skill].scope
               /\ skillRow'[x.skill].promotedFrom = skillRow[x.skill].promotedFrom
               /\ skillRow[x.skill] # Absent
            \/ Personal(skillRow[x.skill]) /\ Personal(skillRow'[x.skill])
        <5>1. skillRow'[x.skill] \in SkillRow \cup {Absent}
          BY <3>4
        <5>2. skillRow[x.skill] = Absent => Personal(skillRow[x.skill])
          BY DEF Personal, Absent
        <5>3. skillRow'[x.skill] \in SkillRow => skillRow'[x.skill].scope # "none"
          BY DEF SkillRow, Scopes
        <5>4. Absent.scope = "none"
          BY DEF Absent
        <5> QED BY <2>3, <3>4, <5>1, <5>2, <5>3, <5>4, SkillsAssumption DEF Touches
      <4>2. x.row.scope = "personal" => x.row.promotedFrom = NoSkill
        BY <2>1 DEF RequestOK
      <4>3. x.row.scope # "none"
        BY <3>1 DEF SkillRow, Scopes
      <4> QED BY <3>4, <4>1, <4>2, <4>3 DEF SameSkill, Personal
    <3> QED BY <2>1, <2>5, <3>2, <3>3, <3>4 DEF RequestOK
  <2> QED BY <2>4, <2>5
<1>5. \A r \in SkillRequests : RequestOK(request[r], skillRow, Kept, approved \cup Seeded)'
  BY <1>1, <1>2, <1>4, IdleFits
<1>6. Reserved(request')
  BY ReservedIdle
<1>7. begun' \in Nat
  BY DEF Answer, Continue, SkillsInv
<1> QED BY <1>1, <1>2, <1>3, <1>5, <1>6, <1>7 DEF SkillsInv

-----------------------------------------------------------------------------
LEMMA ReadSkillKeeps ==
  ASSUME SkillsInv, NEW q \in SkillRequests, NEW s \in Skills, NEW op \in Operations,
         ReadSkill(q, s, op)
  PROVE  SkillsInv'
<1> DEFINE keeps == op \in {"update", "delete"}
           row == IF keeps THEN skillRow[s]
                  ELSE [skillRow[s] EXCEPT !.state = TargetState(op)]
           x == [op |-> op, pc |-> IF keeps THEN "bucket" ELSE "write", skill |-> s,
                 new |-> NoSkill, row |-> row, uri |-> row.uri,
                 cols |-> {}, found |-> FALSE]
<1>1. /\ op \notin {"create", "promote"} /\ Exists(s) /\ Accepts(skillRow[s], op)
      /\ request' = [request EXCEPT ![q] = x] /\ RowsUnchanged /\ DocsUnchanged
      /\ begun' = begun + 1
  BY DEF ReadSkill, Begin
<1>2. skillRow[s] \in SkillRow /\ RowOK(skillRow[s], s, skillRow, Kept, approved \cup Seeded)
  BY <1>1 DEF SkillsInv, Exists
<1>3. ~keeps => /\ op \in {"submit", "approve", "reject", "publish", "archive"}
                /\ TargetState(op) \in States
                /\ TargetState(op) \in Transitions[skillRow[s].state]
  BY <1>1, <1>2 DEF Operations, TargetState, States, Accepts
<1>4. /\ row \in SkillRow /\ row.scope = skillRow[s].scope /\ row.uri = skillRow[s].uri
      /\ row.promotedTo = skillRow[s].promotedTo
      /\ row.promotedFrom = skillRow[s].promotedFrom
      /\ row.state = IF keeps THEN skillRow[s].state ELSE TargetState(op)
  BY <1>2, <1>3 DEF SkillRow
<1>5. row.state \in Decided => s \in approved \cup Seeded \/ op = "approve"
  <2>1. CASE keeps
    BY <1>2, <1>4, <2>1 DEF RowOK
  <2>2. CASE ~keeps
    BY <1>2, <1>3, <1>4, <2>2 DEF RowOK, SkillRow, States, Transitions, TargetState, Decided
  <2> QED BY <2>1, <2>2
<1>6. op = "delete" => skillRow[s].scope = "personal"
  BY <1>1 DEF Accepts
<1> HIDE DEF row
<1>7. x \in RequestStates
  BY <1>4 DEF RequestStates, SkillRow
<1>8. RequestOK(x, skillRow, Kept, approved \cup Seeded)
  <2>1. MarkFits(row, s, skillRow) /\ SameSkill(row, s, skillRow)
    BY <1>2, <1>4 DEF RowOK, MarkFits, SameSkill
  <2> QED BY <1>1, <1>2, <1>4, <1>5, <1>6, <2>1 DEF RequestOK, RowOK, Operations
<1>9. Reserved(request')
  <2>1. \A r \in SkillRequests : request'[r] = IF r = q THEN x ELSE request[r]
    BY <1>1 DEF SkillsInv
  <2>2. \A r \in SkillRequests : request[r].new # NoSkill => request[r].new # s
    BY <1>1, IdleFits DEF SkillsInv, RequestOK, Exists
  <2> QED BY <2>1, <2>2 DEF Reserved, SkillsInv
<1>10. /\ Kept' = Kept /\ skillDocs' = skillDocs /\ deletedDocs' = deletedDocs
       /\ begun' \in Nat
  BY <1>1 DEF DocsUnchanged, Kept, SkillsInv
<1> HIDE DEF x
<1> QED BY <1>1, <1>7, <1>8, <1>9, <1>10, RequestMoves DEF SkillsInv

(* A new id is no row and in no request.                                   *)
LEMMA NewIds ==
  ASSUME SkillsInv, NEW q \in SkillRequests, NEW x \in RequestStates,
         NextSkill(x.new), x.new \in Skills, x.skill # x.new,
         x.skill = NoSkill \/ (x.skill \in Skills /\ Exists(x.skill)),
         request' = [request EXCEPT ![q] = x]
  PROVE  skillRow[x.new] = Absent /\ Reserved(request')
<1>1. \A r \in SkillRequests : request'[r] = IF r = q THEN x ELSE request[r]
  BY DEF SkillsInv
<1>2. skillRow[x.new] = Absent
        /\ \A r \in SkillRequests : request[r].skill # x.new /\ request[r].new # x.new
  BY DEF NextSkill, Used, Exists
<1>3. \A r \in SkillRequests : request[r].new # NoSkill => request[r].new # x.skill
  BY DEF SkillsInv, RequestOK, Exists
<1>4. \A p, r \in SkillRequests : request[p].new # NoSkill =>
        request[r].skill # request[p].new /\ (r # p => request[r].new # request[p].new)
  BY DEF SkillsInv, Reserved
<1>5. Reserved(request')
  <2> SUFFICES ASSUME NEW p \in SkillRequests, NEW r \in SkillRequests,
                      request'[p].new # NoSkill
               PROVE  /\ request'[r].skill # request'[p].new
                      /\ r # p => request'[r].new # request'[p].new
    BY DEF Reserved
  <2>1. CASE p = q /\ r = q
    BY <1>1, <2>1
  <2>2. CASE p = q /\ r # q
    BY <1>1, <1>2, <2>2
  <2>3. CASE p # q /\ r = q
    BY <1>1, <1>2, <1>3, <2>3
  <2>4. CASE p # q /\ r # q
    BY <1>1, <1>4, <2>4
  <2> QED BY <2>1, <2>2, <2>3, <2>4
<1> QED BY <1>2, <1>5

LEMMA ReadForPromotionKeeps ==
  ASSUME SkillsInv, NEW q \in SkillRequests, NEW s \in Skills, NEW new \in Skills,
         ReadForPromotion(q, s, new)
  PROVE  SkillsInv'
<1> DEFINE row == [skillRow[s] EXCEPT !.promotedTo = new]
           x == [op |-> "promote", pc |-> "bucket", skill |-> s, new |-> new,
                 row |-> row, uri |-> row.uri, cols |-> {}, found |-> FALSE]
<1>1. /\ Exists(s) /\ NextSkill(new) /\ skillRow[s].scope \in {"personal", "team"}
      /\ request' = [request EXCEPT ![q] = x] /\ RowsUnchanged /\ DocsUnchanged
      /\ begun' = begun + 1
  BY DEF ReadForPromotion, Begin, Accepts, NextScope
<1>2. skillRow[s] \in SkillRow /\ RowOK(skillRow[s], s, skillRow, Kept, approved \cup Seeded)
  BY <1>1 DEF SkillsInv, Exists
<1>3. /\ row \in SkillRow /\ row.scope = skillRow[s].scope /\ row.uri = skillRow[s].uri
      /\ row.promotedTo = new /\ row.promotedFrom = skillRow[s].promotedFrom
      /\ row.state = skillRow[s].state
  BY <1>2 DEF SkillRow
<1> HIDE DEF row
<1>4. x \in RequestStates
  BY <1>3 DEF RequestStates, SkillRow, Operations
<1>5. s # new
  BY <1>1 DEF NextSkill, Used
<1>6. x.new = new /\ x.skill = s
  OBVIOUS
<1>7. skillRow[new] = Absent /\ Reserved(request')
  <2> HIDE DEF x
  <2> QED BY <1>1, <1>4, <1>5, <1>6, NewIds
<1>8. RequestOK(x, skillRow, Kept, approved \cup Seeded)
  BY <1>1, <1>2, <1>3, <1>7 DEF RequestOK, RowOK, SameSkill
<1>9. /\ Kept' = Kept /\ skillDocs' = skillDocs /\ deletedDocs' = deletedDocs
      /\ begun' \in Nat
  BY <1>1 DEF DocsUnchanged, Kept, SkillsInv
<1> HIDE DEF x
<1> QED BY <1>1, <1>4, <1>7, <1>8, <1>9, RequestMoves DEF SkillsInv

LEMMA CreateSkillKeeps ==
  ASSUME SkillsInv, NEW q \in SkillRequests, NEW new \in Skills, CreateSkill(q, new)
  PROVE  SkillsInv'
<1>1. PICK uri \in {new, NoSkill} :
        /\ Begin(q, "create", "write", NoSkill, new, Row("personal", "DRAFT", uri, NoSkill))
        /\ skillDocs' = IF uri = new THEN skillDocs \cup {new} ELSE skillDocs
  BY DEF CreateSkill
<1> DEFINE row == Row("personal", "DRAFT", uri, NoSkill)
           x == [op |-> "create", pc |-> "write", skill |-> NoSkill, new |-> new,
                 row |-> row, uri |-> row.uri, cols |-> {}, found |-> FALSE]
<1>2. /\ NextSkill(new) /\ RowsUnchanged /\ deletedDocs' = deletedDocs
      /\ request' = [request EXCEPT ![q] = x] /\ begun' = begun + 1
  BY <1>1 DEF CreateSkill, Begin
<1>3. /\ row \in SkillRow /\ row.scope = "personal" /\ row.uri = uri /\ row.state = "DRAFT"
      /\ row.promotedTo = NoSkill /\ row.promotedFrom = NoSkill
  BY <1>1 DEF Row, SkillRow, Scopes, States
<1> HIDE DEF row
<1>4. x \in RequestStates
  BY <1>1, <1>3 DEF RequestStates, Operations
<1>5. x.new = new /\ x.skill = NoSkill /\ NoSkill # new
  BY SkillsAssumption
<1>6. skillRow[new] = Absent /\ Reserved(request')
  <2> HIDE DEF x
  <2> QED BY <1>2, <1>4, <1>5, NewIds
<1>7. /\ Kept \subseteq Kept' /\ skillDocs' \subseteq Skills /\ deletedDocs' \subseteq Skills
      /\ uri # NoSkill => uri \in Kept'
  BY <1>1, <1>2 DEF Kept, SkillsInv
<1>8. RequestOK(x, skillRow, Kept', approved \cup Seeded)
  BY <1>3, <1>5, <1>6, <1>7 DEF RequestOK, Decided
<1>9. begun' \in Nat
  BY <1>2 DEF SkillsInv
<1> HIDE DEF x
<1> QED BY <1>2, <1>4, <1>6, <1>7, <1>8, <1>9, RequestMoves

LEMMA UpdateDocumentKeeps ==
  ASSUME SkillsInv, NEW q \in SkillRequests, UpdateDocument(q)
  PROVE  SkillsInv'
<1> DEFINE y == request[q]
           s == y.skill
           told == [y EXCEPT !.pc = "write", !.row.uri = s]
           same == [y EXCEPT !.pc = "write"]
<1>1. /\ y \in RequestStates /\ RequestOK(y, skillRow, Kept, approved \cup Seeded)
      /\ y.op = "update" /\ y.pc = "bucket" /\ s \in Skills /\ y.row \in SkillRow
  BY DEF SkillsInv, UpdateDocument, RequestOK
<1>2. /\ RowsUnchanged /\ begun' = begun /\ deletedDocs' = deletedDocs
      /\ skillDocs \subseteq skillDocs' /\ skillDocs' \subseteq skillDocs \cup {s}
  BY DEF UpdateDocument, Continue, Proceed, Answer
<1>3. /\ Kept \subseteq Kept' /\ skillDocs' \subseteq Skills /\ deletedDocs' \subseteq Skills
      /\ begun' \in Nat
  BY <1>1, <1>2 DEF Kept, SkillsInv
<1>4. CASE skillDocs' = skillDocs \cup {s} /\ Continue(q, told)
  <2>1. /\ told \in RequestStates /\ told.skill = s /\ told.new = y.new /\ told.op = y.op
        /\ told.uri = y.uri /\ told.pc = "write" /\ told.row \in SkillRow
        /\ told.row = [y.row EXCEPT !.uri = s]
    BY <1>1 DEF RequestStates, SkillRow
  <2>2. /\ told.row.scope = y.row.scope /\ told.row.promotedTo = y.row.promotedTo
        /\ told.row.promotedFrom = y.row.promotedFrom /\ told.row.state = y.row.state
        /\ told.row.uri = s
    BY <1>1, <2>1 DEF SkillRow
  <2>3. s \in Kept'
    BY <1>4 DEF Kept
  <2> HIDE DEF told
  <2>4. RequestOK(told, skillRow, Kept', approved \cup Seeded)
    BY <1>1, <1>3, <2>1, <2>2, <2>3 DEF RequestOK, SameSkill, MarkFits
  <2>5. request' = [request EXCEPT ![q] = told]
    BY <1>4 DEF Continue
  <2>6. Reserved(request')
    BY <2>1, <2>5, SameIds
  <2> QED BY <1>2, <1>3, <2>1, <2>4, <2>5, <2>6, RequestMoves
<1>5. CASE Answer(q)
  <2>1. request' = [request EXCEPT ![q] = Idle] /\ Reserved(request')
    BY <1>5, ReservedIdle DEF Answer, Continue
  <2> QED BY <1>2, <1>3, <2>1, IdleFits, RequestMoves
<1>6. CASE Proceed(q, "write")
  <2>1. /\ same \in RequestStates /\ same.skill = s /\ same.new = y.new /\ same.op = y.op
        /\ same.uri = y.uri /\ same.pc = "write" /\ same.row = y.row
    BY <1>1 DEF RequestStates
  <2> HIDE DEF same
  <2>2. RequestOK(same, skillRow, Kept', approved \cup Seeded)
    BY <1>1, <1>3, <2>1 DEF RequestOK
  <2>3. request' = [request EXCEPT ![q] = same]
    BY <1>6 DEF Proceed, Continue, same
  <2>4. Reserved(request')
    BY <2>1, <2>3, SameIds
  <2> QED BY <1>2, <1>3, <2>1, <2>2, <2>3, <2>4, RequestMoves
<1> QED BY <1>4, <1>5, <1>6 DEF UpdateDocument

LEMMA DeleteDocumentKeeps ==
  ASSUME SkillsInv, NEW q \in SkillRequests, DeleteDocument(q)
  PROVE  SkillsInv'
<1> DEFINE x == [request[q] EXCEPT !.pc = "write"]
<1>1. request[q] \in RequestStates
        /\ RequestOK(request[q], skillRow, Kept, approved \cup Seeded)
  BY DEF SkillsInv
<1>2. /\ request' = [request EXCEPT ![q] = x] /\ RowsUnchanged /\ begun' = begun
      /\ request[q].op = "delete" /\ request[q].pc = "bucket"
  BY DEF DeleteDocument, Proceed, Continue
<1>3. /\ x \in RequestStates /\ x.skill = request[q].skill /\ x.new = request[q].new
      /\ x.op = "delete" /\ x.uri = request[q].uri /\ x.row = request[q].row
      /\ x.pc = "write"
  BY <1>1, <1>2 DEF RequestStates
<1>4. Reserved(request')
  BY <1>2, <1>3, SameIds
<1>5. request[q].skill \in Skills
  BY <1>1, <1>2 DEF RequestOK
<1>6. /\ Kept' = Kept \/ Kept' = Kept \cup {request[q].skill}
      /\ skillDocs' \subseteq Skills /\ deletedDocs' \subseteq Skills /\ begun' \in Nat
  BY <1>2, <1>5 DEF Kept, SkillsInv, DeleteDocument, DocsUnchanged
<1> HIDE DEF x
<1>7. RequestOK(x, skillRow, Kept', approved \cup Seeded)
  BY <1>1, <1>2, <1>3, <1>6 DEF RequestOK
<1> QED BY <1>2, <1>3, <1>4, <1>6, <1>7, RequestMoves

LEMMA CopyDocumentKeeps ==
  ASSUME SkillsInv, NEW q \in SkillRequests, CopyDocument(q)
  PROVE  SkillsInv'
<1> DEFINE copied == request[q].skill \in skillDocs
           x == IF copied THEN [request[q] EXCEPT !.pc = "write", !.uri = request[q].new]
                ELSE [request[q] EXCEPT !.pc = "write"]
<1>1. request[q] \in RequestStates
        /\ RequestOK(request[q], skillRow, Kept, approved \cup Seeded)
  BY DEF SkillsInv
<1>2. /\ request' = [request EXCEPT ![q] = x] /\ RowsUnchanged /\ begun' = begun
      /\ request[q].op = "promote" /\ request[q].pc = "bucket"
      /\ skillDocs' = IF copied THEN skillDocs \cup {request[q].new} ELSE skillDocs
      /\ deletedDocs' = deletedDocs
  BY DEF CopyDocument, Proceed, Continue
<1>3. /\ x \in RequestStates /\ x.skill = request[q].skill /\ x.new = request[q].new
      /\ x.op = "promote" /\ x.row = request[q].row /\ x.pc = "write"
      /\ x.uri = IF copied THEN request[q].new ELSE request[q].uri
  BY <1>1, <1>2 DEF RequestStates
<1>4. Reserved(request')
  BY <1>2, <1>3, SameIds
<1>5. request[q].new \in Skills
  BY <1>1, <1>2 DEF RequestOK
<1>6. /\ Kept \subseteq Kept' /\ (copied => request[q].new \in Kept')
      /\ skillDocs' \subseteq Skills /\ deletedDocs' \subseteq Skills /\ begun' \in Nat
  BY <1>2, <1>5 DEF Kept, SkillsInv
<1> HIDE DEF x
<1>7. RequestOK(x, skillRow, Kept', approved \cup Seeded)
  BY <1>1, <1>2, <1>3, <1>6 DEF RequestOK
<1> QED BY <1>2, <1>3, <1>4, <1>6, <1>7, RequestMoves

LEMMA MergeReadsSkillKeeps ==
  ASSUME SkillsInv, NEW q \in SkillRequests, MergeReadsSkill(q)
  PROVE  SkillsInv'
<1>1. request[q] \in RequestStates
        /\ RequestOK(request[q], skillRow, Kept, approved \cup Seeded)
  BY DEF SkillsInv
<1>2. PICK cols \in SUBSET {"state", "uri", "promotedTo"}, found \in BOOLEAN :
        request' = [request EXCEPT ![q] =
          [request[q] EXCEPT !.pc = "writing", !.found = found, !.cols = cols]]
  BY DEF MergeReadsSkill, Continue, Marked
<1> DEFINE x == [request[q] EXCEPT !.pc = "writing", !.found = found, !.cols = cols]
<1>3. /\ RowsUnchanged /\ begun' = begun /\ request[q].pc = "write"
      /\ skillDocs' = skillDocs /\ deletedDocs' = deletedDocs /\ Kept' = Kept
  BY DEF MergeReadsSkill, Continue, DocsUnchanged, Kept
<1>4. /\ x \in RequestStates /\ x.skill = request[q].skill /\ x.new = request[q].new
      /\ x.op = request[q].op /\ x.uri = request[q].uri /\ x.row = request[q].row
      /\ x.pc = "writing"
  BY <1>1 DEF RequestStates
<1> HIDE DEF x
<1>5. request' = [request EXCEPT ![q] = x]
  BY <1>2 DEF x
<1>6. Reserved(request')
  BY <1>4, <1>5, SameIds
<1>7. RequestOK(x, skillRow, Kept', approved \cup Seeded)
  BY <1>1, <1>3, <1>4 DEF RequestOK
<1> QED BY <1>3, <1>4, <1>5, <1>6, <1>7, RequestMoves DEF SkillsInv

LEMMA AbandonKeeps ==
  ASSUME SkillsInv, NEW q \in SkillRequests, Abandon(q)
  PROVE  SkillsInv'
<1>1. Kept' = Kept /\ skillDocs' = skillDocs /\ deletedDocs' = deletedDocs
  BY DEF Abandon, DocsUnchanged, Kept
<1>2. /\ Answer(q) /\ request' = [request EXCEPT ![q] = Idle] /\ RowsUnchanged
      /\ begun' \in Nat
  BY DEF Abandon, Answer, Continue, SkillsInv
<1>3. Reserved(request')
  BY <1>2, ReservedIdle
<1> QED BY <1>1, <1>2, <1>3, IdleFits, RequestMoves DEF SkillsInv


-----------------------------------------------------------------------------
(* What a save may write: each column is the copy's or the row's, the      *)
(* scope and the origin are those of the row or nobody's.                  *)
LEMMA SavedFits ==
  ASSUME SkillsInv, NEW q \in SkillRequests, request[q].pc = "writing",
         request[q].op \notin {"create", "delete"},
         request[q].found <=> Exists(request[q].skill)
  PROVE  LET x == request[q]  s == x.skill  now == skillRow[s]  row == Saved(q) IN
         /\ s \in Skills /\ row \in SkillRow /\ x.row \in SkillRow
         /\ row.scope = x.row.scope /\ row.promotedFrom = x.row.promotedFrom
         /\ \/ now.scope = row.scope /\ now.promotedFrom = row.promotedFrom
            \/ Personal(now) /\ Personal(row)
         /\ row.state = x.row.state \/ (now \in SkillRow /\ row.state = now.state)
         /\ row.uri = x.row.uri \/ (now \in SkillRow /\ row.uri = now.uri)
         /\ \/ row.promotedTo = x.row.promotedTo
            \/ /\ now \in SkillRow /\ now.scope = row.scope
               /\ row.promotedTo = now.promotedTo
<1> DEFINE x == request[q]
           s == x.skill
           now == skillRow[s]
           row == Saved(q)
<1>1. /\ x \in RequestStates /\ RequestOK(x, skillRow, Kept, approved \cup Seeded)
      /\ x.pc = "writing" /\ x.op \notin {"create", "delete"}
  BY DEF SkillsInv
<1>2. /\ s \in Skills /\ x.row \in SkillRow /\ SameSkill(x.row, s, skillRow)
      /\ x.row.scope = "personal" => x.row.promotedFrom = NoSkill
  BY <1>1 DEF RequestOK
<1>3. now \in SkillRow \/ now = Absent
  BY <1>2 DEF SkillsInv
<1>4. x.found <=> now # Absent
  BY DEF Exists
<1>5. x.row.scope # "none" /\ Absent.scope = "none" /\ Absent.promotedFrom = NoSkill
  BY <1>2 DEF SkillRow, Scopes, Absent
<1>6. CASE now = Absent
  <2>1. row = x.row
    BY <1>4, <1>6 DEF Saved
  <2>2. x.row.scope = "personal"
    BY <1>2, <1>5, <1>6 DEF SameSkill
  <2>3. Personal(now) /\ Personal(x.row)
    BY <1>2, <1>5, <1>6, <2>2 DEF Personal
  <2> QED BY <1>2, <2>1, <2>3
<1>7. CASE now # Absent
  <2>1. now \in SkillRow /\ now.scope = x.row.scope /\ now.promotedFrom = x.row.promotedFrom
    BY <1>2, <1>3, <1>7 DEF SameSkill
  <2> DEFINE st == Written("state", x.cols, x.row.state, now.state)
             ur == Written("uri", x.cols, x.row.uri, now.uri)
             mk == Written("promotedTo", x.cols, x.row.promotedTo, now.promotedTo)
  <2>2. /\ st \in {x.row.state, now.state} /\ ur \in {x.row.uri, now.uri}
        /\ mk \in {x.row.promotedTo, now.promotedTo}
    BY DEF Written
  <2>3. row = [x.row EXCEPT !.state = st, !.uri = ur, !.promotedTo = mk]
    BY <1>4, <1>7 DEF Saved
  <2> HIDE DEF st, ur, mk
  <2>4. /\ row \in SkillRow /\ row.scope = x.row.scope
        /\ row.promotedFrom = x.row.promotedFrom
        /\ row.state = st /\ row.uri = ur /\ row.promotedTo = mk
    BY <1>2, <2>1, <2>2, <2>3 DEF SkillRow
  <2> QED BY <1>2, <2>1, <2>2, <2>4
<1> QED BY <1>6, <1>7

(* A save without a copy: a decision or an update.                         *)
LEMMA SaveKeeps ==
  ASSUME SkillsInv, NEW q \in SkillRequests,
         CanSave(q, {"submit", "approve", "reject", "publish", "archive", "update"}),
         skillRow' = [skillRow EXCEPT ![request[q].skill] = Saved(q)],
         approved' = IF request[q].op = "approve" THEN approved \cup {request[q].skill}
                     ELSE approved,
         Answer(q), DocsUnchanged
  PROVE  SkillsInv'
<1> DEFINE x == request[q]
           s == x.skill
           now == skillRow[s]
           row == Saved(q)
<1>1. /\ x.pc = "writing" /\ x.op \notin {"create", "delete", "promote", "none"}
      /\ x.found <=> Exists(s)
  BY DEF CanSave
<1>2. /\ s \in Skills /\ row \in SkillRow /\ x.row \in SkillRow
      /\ row.scope = x.row.scope /\ row.promotedFrom = x.row.promotedFrom
      /\ \/ now.scope = row.scope /\ now.promotedFrom = row.promotedFrom
         \/ Personal(now) /\ Personal(row)
      /\ row.state = x.row.state \/ (now \in SkillRow /\ row.state = now.state)
      /\ row.uri = x.row.uri \/ (now \in SkillRow /\ row.uri = now.uri)
      /\ \/ row.promotedTo = x.row.promotedTo
         \/ /\ now \in SkillRow /\ now.scope = row.scope
            /\ row.promotedTo = now.promotedTo
  BY <1>1, SavedFits
<1>3. /\ RequestOK(x, skillRow, Kept, approved \cup Seeded)
      /\ RowOK(now, s, skillRow, Kept, approved \cup Seeded)
  BY <1>2 DEF SkillsInv
<1> HIDE DEF row
<1>4. /\ skillRow' \in [Skills -> SkillRow \cup {Absent}] /\ skillRow'[s] = row
      /\ \A r \in Skills : r # s => skillRow'[r] = skillRow[r]
  BY <1>2 DEF SkillsInv, row
<1>5. Touches(q)
  BY <1>2, <1>4 DEF Touches
<1>6. approved \subseteq approved' /\ approved' \subseteq Skills
        /\ (x.op = "approve" => s \in approved')
  BY <1>2 DEF SkillsInv
<1>7. MarkFits(row, s, skillRow)
  BY <1>1, <1>2, <1>3 DEF RequestOK, RowOK, MarkFits
<1>8. MarkFits(row, s, skillRow')
  BY <1>2, <1>5, <1>7, MarksStay
<1>9. RowOK(row, s, skillRow', Kept, approved' \cup Seeded)
  BY <1>1, <1>2, <1>3, <1>6, <1>8 DEF RowOK, RequestOK
<1> QED BY <1>4, <1>5, <1>6, <1>9, RowsWritten

LEMMA WriteStateKeeps ==
  ASSUME SkillsInv, NEW q \in SkillRequests, WriteState(q)
  PROVE  SkillsInv'
BY SaveKeeps DEF WriteState, CanSave

LEMMA WriteUpdateKeeps ==
  ASSUME SkillsInv, NEW q \in SkillRequests, WriteUpdate(q)
  PROVE  SkillsInv'
BY SaveKeeps DEF WriteUpdate, CanSave

LEMMA WritePromotionKeeps ==
  ASSUME SkillsInv, NEW q \in SkillRequests, WritePromotion(q)
  PROVE  SkillsInv'
<1> DEFINE x == request[q]
           s == x.skill
           new == x.new
           now == skillRow[s]
           row == Saved(q)
           copy == CopyOf(q)
<1>1. /\ x.pc = "writing" /\ x.op = "promote" /\ (x.found <=> Exists(s))
      /\ skillRow' = [skillRow EXCEPT ![new] = copy, ![s] = row]
      /\ Answer(q) /\ DocsUnchanged /\ approved' = approved
  BY DEF WritePromotion, CanSave
<1>2. /\ s \in Skills /\ row \in SkillRow /\ x.row \in SkillRow
      /\ row.scope = x.row.scope /\ row.promotedFrom = x.row.promotedFrom
      /\ \/ now.scope = row.scope /\ now.promotedFrom = row.promotedFrom
         \/ Personal(now) /\ Personal(row)
      /\ row.state = x.row.state \/ (now \in SkillRow /\ row.state = now.state)
      /\ row.uri = x.row.uri \/ (now \in SkillRow /\ row.uri = now.uri)
      /\ \/ row.promotedTo = x.row.promotedTo
         \/ /\ now \in SkillRow /\ now.scope = row.scope
            /\ row.promotedTo = now.promotedTo
  BY <1>1, SavedFits
<1>3. /\ x \in RequestStates /\ RequestOK(x, skillRow, Kept, approved \cup Seeded)
      /\ RowOK(now, s, skillRow, Kept, approved \cup Seeded)
  BY <1>2 DEF SkillsInv
<1>4. /\ new \in Skills /\ skillRow[new] = Absent /\ x.row.promotedTo = new
      /\ x.row.scope \in {"personal", "team"} /\ s # new
  BY <1>1, <1>2, <1>3, SkillsAssumption DEF RequestOK, SkillsInv, Reserved
<1>5. /\ copy.scope = NextScope[x.row.scope] /\ copy.state = "REVIEW"
      /\ copy.uri = x.uri /\ copy.promotedFrom = s /\ copy.promotedTo = NoSkill
      /\ copy.scope \in {"team", "company"}
  BY <1>4 DEF CopyOf, Row, NextScope
<1>6. copy \in SkillRow
  BY <1>2, <1>3, <1>4 DEF CopyOf, Row, NextScope, SkillRow, Scopes, States, RequestStates
<1> HIDE DEF row, copy
<1>7. /\ skillRow' \in [Skills -> SkillRow \cup {Absent}]
      /\ skillRow'[s] = row /\ skillRow'[new] = copy
      /\ \A r \in Skills : r # s /\ r # new => skillRow'[r] = skillRow[r]
  BY <1>1, <1>2, <1>4, <1>6 DEF SkillsInv
<1>8. Touches(q)
  BY <1>2, <1>7 DEF Touches
<1>9. MarkFits(row, s, skillRow')
  <2>1. CASE row.promotedTo = new
    BY <1>2, <1>4, <1>5, <1>7, <2>1 DEF MarkFits
  <2>2. CASE row.promotedTo # new
    <3>1. MarkFits(row, s, skillRow)
      BY <1>2, <1>3, <1>4, <2>2 DEF RowOK, MarkFits
    <3> QED BY <1>2, <1>8, <3>1, MarksStay
  <2> QED BY <2>1, <2>2
<1>10. RowOK(row, s, skillRow', Kept, approved' \cup Seeded)
  BY <1>1, <1>2, <1>3, <1>9 DEF RowOK, RequestOK
<1>11. RowOK(copy, new, skillRow', Kept, approved' \cup Seeded)
  BY <1>3, <1>5 DEF RowOK, MarkFits, Decided, RequestOK
<1> QED BY <1>1, <1>7, <1>8, <1>10, <1>11, RowsWritten DEF SkillsInv

LEMMA WriteNewKeeps ==
  ASSUME SkillsInv, NEW q \in SkillRequests, WriteNew(q)
  PROVE  SkillsInv'
<1> DEFINE x == request[q]
           new == x.new
<1>1. /\ x.op = "create" /\ x.pc = "write" /\ RequestOK(x, skillRow, Kept, approved \cup Seeded)
      /\ skillRow' = [skillRow EXCEPT ![new] = x.row]
      /\ Answer(q) /\ DocsUnchanged /\ approved' = approved
  BY DEF WriteNew, SkillsInv
<1>2. /\ new \in Skills /\ x.row \in SkillRow /\ x.row.state = "DRAFT"
      /\ x.row.promotedTo = NoSkill /\ x.row.scope = "personal"
      /\ x.row.promotedFrom = NoSkill
      /\ x.row.uri # NoSkill => x.row.uri \in Kept
  BY <1>1 DEF RequestOK
<1>3. /\ skillRow' \in [Skills -> SkillRow \cup {Absent}] /\ skillRow'[new] = x.row
      /\ \A r \in Skills : r # new => skillRow'[r] = skillRow[r]
  BY <1>1, <1>2 DEF SkillsInv
<1>4. Touches(q)
  BY <1>3 DEF Touches
<1>5. RowOK(x.row, new, skillRow', Kept, approved' \cup Seeded)
  BY <1>2 DEF RowOK, MarkFits, Decided
<1> QED BY <1>1, <1>3, <1>4, <1>5, RowsWritten DEF SkillsInv

LEMMA DeleteRowKeeps ==
  ASSUME SkillsInv, NEW q \in SkillRequests, DeleteRow(q)
  PROVE  SkillsInv'
<1> DEFINE x == request[q]
           s == x.skill
<1>1. /\ x.op = "delete" /\ x.pc = "write" /\ RequestOK(x, skillRow, Kept, approved \cup Seeded)
      /\ skillRow' = [skillRow EXCEPT ![s] = Absent]
      /\ Answer(q) /\ DocsUnchanged /\ approved' = approved
  BY DEF DeleteRow, SkillsInv
<1>2. /\ s \in Skills /\ x.row.scope = "personal" /\ SameSkill(x.row, s, skillRow)
      /\ x.row.promotedFrom = NoSkill
  BY <1>1 DEF RequestOK
<1>3. /\ skillRow' \in [Skills -> SkillRow \cup {Absent}] /\ skillRow'[s] = Absent
      /\ \A r \in Skills : r # s => skillRow'[r] = skillRow[r]
  BY <1>1, <1>2 DEF SkillsInv
<1>4. Personal(skillRow[s]) /\ Personal(Absent)
  BY <1>2 DEF SameSkill, Personal, Absent
<1>5. Touches(q)
  BY <1>2, <1>3, <1>4 DEF Touches
<1>6. RowOK(Absent, s, skillRow', Kept, approved' \cup Seeded)
  BY DEF RowOK, MarkFits, Absent, Decided
<1> QED BY <1>1, <1>3, <1>5, <1>6, RowsWritten DEF SkillsInv

-----------------------------------------------------------------------------
(* The inductive invariant holds in every reachable state.                 *)
THEOREM SkillsInvariant == SkillsSpec => []SkillsInv
<1>1. SkillsInv /\ SkillsNext => SkillsInv'
  BY ReadSkillKeeps, ReadForPromotionKeeps, CreateSkillKeeps, UpdateDocumentKeeps,
     DeleteDocumentKeeps, CopyDocumentKeeps, MergeReadsSkillKeeps, AbandonKeeps,
     WriteStateKeeps, WriteNewKeeps, WriteUpdateKeeps, DeleteRowKeeps, WritePromotionKeeps
     DEF SkillsNext
<1>2. SkillsInv /\ UNCHANGED skillVars => SkillsInv'
  BY DEF SkillsInv, skillVars, RowOK, MarkFits, RequestOK, SameSkill, Reserved, Kept
<1> QED BY SkillsInitially, <1>1, <1>2, PTL DEF SkillsSpec

(* A row marked as promoted always has its copy, one scope up, whatever    *)
(* requests are in flight, stale saves included, and however they fail.    *)
THEOREM MarkAlwaysFollowsCopy == SkillsSpec => []MarkFollowsCopy
<1>1. SkillsInv => MarkFollowsCopy
  BY DEF SkillsInv, RowOK, MarkFits, MarkFollowsCopy
<1> QED BY <1>1, SkillsInvariant, PTL

(* The document a row points to is in the bucket, or a delete took it.     *)
THEOREM PathAlwaysHasDocument == SkillsSpec => []PathHasDocument
<1>1. SkillsInv => PathHasDocument
  BY DEF SkillsInv, RowOK, PathHasDocument, Kept
<1> QED BY <1>1, SkillsInvariant, PTL

(* Nothing but the seeded skills is published, or withdrawn after that,    *)
(* without an approval on record.                                          *)
THEOREM PublishedAlwaysApproved == SkillsSpec => []PublishedWasApproved
<1>1. SkillsInv => PublishedWasApproved
  BY DEF SkillsInv, RowOK, PublishedWasApproved, Decided
<1> QED BY <1>1, SkillsInvariant, PTL

-----------------------------------------------------------------------------
(* The documents: a RUNNING row is watched, and a result is lost to nobody *)
(* but a task whose copy is older.                                         *)

Watching == TaskPcs \ {"unsent", "done"}

Running == docRow # NoDoc /\ docRow.status = "running"

(* A task at work; the save of the one that wrote RUNNING will write       *)
(* another status.                                                         *)
Watches(x) ==
  /\ x.pc \in Watching
  /\ x.pc \in {"saving", "marking"} => x.found /\ "status" \in x.cols

Watched == Running => docRow.by \in Tasks /\ Watches(task[docRow.by])

(* The copies for a mark have the blocks the row had, a result its own.    *)
BlocksFit(x, t) ==
  /\ x.pc \in {"begin", "beginning", "mark", "marking"} => x.blocks = x.had
  /\ x.pc \in {"save", "saving"} => x.blocks = t

(* No task is sent before the row is there.                                *)
UploadFirst == uploading # "no" => docRow = NoDoc /\ \A t \in Tasks : task[t].pc = "unsent"

DocumentsInv ==
  /\ DocumentsTypeOK /\ Watched /\ UploadFirst
  /\ \A t \in Tasks : BlocksFit(task[t], t)

LEMMA Placed ==
  ASSUME NEW pc \in TaskPcs, NEW b \in Tasks \cup {NoTask}, NEW h \in Tasks \cup {NoTask}
  PROVE  /\ TaskAt(pc, b, h) \in Task /\ TaskAt(pc, b, h).pc = pc
         /\ TaskAt(pc, b, h).blocks = b /\ TaskAt(pc, b, h).had = h
BY DEF TaskAt, Task

LEMMA Copied ==
  ASSUME DocumentsInv, docRow # NoDoc, NEW t \in Tasks, NEW pc \in TaskPcs,
         Copy(t, pc, docRow.blocks)
  PROVE  \E x \in Task : /\ x.pc = pc /\ x.blocks = x.had
                         /\ task' = [task EXCEPT ![t] = x]
<1>1. docRow.blocks \in Tasks \cup {NoTask}
  BY DEF DocumentsInv, DocumentsTypeOK, DocRow
<1> DEFINE x == TaskAt(pc, docRow.blocks, docRow.blocks)
<1>2. x \in Task /\ x.pc = pc /\ x.blocks = x.had
  BY <1>1, Placed
<1>3. task' = [task EXCEPT ![t] = x]
  BY DEF Copy
<1> QED BY <1>2, <1>3

LEMMA DocumentsInitially == DocumentsInit => DocumentsInv
<1> SUFFICES ASSUME DocumentsInit PROVE DocumentsInv
  OBVIOUS
<1>1. /\ task \in [Tasks -> Task]
      /\ \A t \in Tasks : task[t].pc = "unsent"
  <2>1. TaskAt("unsent", NoTask, NoTask) \in Task
          /\ TaskAt("unsent", NoTask, NoTask).pc = "unsent"
    BY Placed DEF TaskPcs
  <2> QED BY <2>1 DEF DocumentsInit
<1>2. DocumentsTypeOK
  BY <1>1 DEF DocumentsInit, DocumentsTypeOK
<1>3. Watched /\ UploadFirst
  BY <1>1 DEF DocumentsInit, Watched, Running, UploadFirst
<1>4. \A t \in Tasks : BlocksFit(task[t], t)
  BY <1>1 DEF BlocksFit
<1> QED BY <1>2, <1>3, <1>4 DEF DocumentsInv

(* The step of one task: whoever the row waits for after it is at work.    *)
LEMMA TaskMoves ==
  ASSUME DocumentsInv, NEW t \in Tasks, NEW x \in Task,
         task[t].pc # "unsent" \/ docRow # NoDoc,
         task' = [task EXCEPT ![t] = x], RequestsUnchanged, BlocksFit(x, t),
         docRow' \in DocRow \cup {NoDoc}, chunks' \subseteq Tasks,
         Running' => \/ docRow'.by = t /\ Watches(x)
                     \/ /\ Running /\ docRow'.by = docRow.by
                        /\ docRow.by = t => Watches(x)
  PROVE  DocumentsInv'
<1>1. task' \in [Tasks -> Task]
        /\ \A u \in Tasks : task'[u] = IF u = t THEN x ELSE task[u]
  BY DEF DocumentsInv, DocumentsTypeOK
<1>2. UploadFirst'
  BY DEF DocumentsInv, UploadFirst, RequestsUnchanged
<1>3. Watched'
  <2> SUFFICES ASSUME Running'
               PROVE  docRow'.by \in Tasks /\ Watches(task'[docRow'.by])
    BY DEF Watched, Watches
  <2>1. CASE docRow'.by = t
    BY <1>1, <2>1
  <2>2. CASE docRow'.by # t
    BY <1>1, <2>2 DEF DocumentsInv, Watched
  <2> QED BY <2>1, <2>2
<1>4. \A u \in Tasks : BlocksFit(task'[u], u)
  BY <1>1 DEF DocumentsInv
<1>5. DocumentsTypeOK'
  BY <1>1 DEF DocumentsInv, DocumentsTypeOK, RequestsUnchanged
<1> QED BY <1>2, <1>3, <1>4, <1>5 DEF DocumentsInv, BlocksFit

(* A step that leaves the row: only the task that wrote RUNNING matters.   *)
LEMMA RowStays ==
  ASSUME DocumentsInv, NEW t \in Tasks, NEW x \in Task,
         task[t].pc # "unsent" \/ docRow # NoDoc,
         task' = [task EXCEPT ![t] = x], RequestsUnchanged, BlocksFit(x, t),
         docRow' = docRow, chunks' = chunks,
         Running /\ docRow.by = t => Watches(x)
  PROVE  DocumentsInv'
<1>1. docRow' \in DocRow \cup {NoDoc} /\ chunks' \subseteq Tasks
  BY DEF DocumentsInv, DocumentsTypeOK
<1>2. Running' => Running /\ docRow'.by = docRow.by
  BY DEF Running
<1> QED BY <1>1, <1>2, TaskMoves

(* A save writes a row; it is RUNNING by t, or because its save leaves the *)
(* status alone.                                                           *)
LEMMA FlushFits ==
  ASSUME DocumentsInv, NEW t \in Tasks, NEW status \in Statuses, Flush(t, status)
  PROVE  /\ docRow' \in DocRow
         /\ Running' => \/ status = "running" /\ docRow'.by = t
                        \/ /\ Running /\ docRow'.by = docRow.by
                           /\ task[t].found /\ "status" \notin task[t].cols
<1>1. task[t] \in Task /\ (docRow # NoDoc => docRow \in DocRow)
  BY DEF DocumentsInv, DocumentsTypeOK
<1>2. CASE /\ docRow' = [status |-> status, blocks |-> task[t].blocks,
                         by |-> IF status = "running" THEN t ELSE NoTask]
  BY <1>1, <1>2 DEF Running, DocRow, Task
<1>3. CASE /\ task[t].found /\ docRow # NoDoc
           /\ docRow' =
                [status |-> Written("status", task[t].cols, status, docRow.status),
                 blocks |-> Written("blocks", task[t].cols, task[t].blocks, docRow.blocks),
                 by |-> IF status = "running" /\ "status" \in task[t].cols
                        THEN t ELSE docRow.by]
  <2>1. docRow.by \in Tasks \cup {NoTask} /\ docRow.status \in Statuses
    BY <1>1, <1>3 DEF DocRow
  <2>2. Written("blocks", task[t].cols, task[t].blocks, docRow.blocks) \in Tasks \cup {NoTask}
    BY <1>1, <1>3 DEF Written, DocRow, Task
  <2>3. docRow'.status = IF "status" \in task[t].cols THEN status ELSE docRow.status
    BY <1>3 DEF Written
  <2>4. docRow'.by = IF status = "running" /\ "status" \in task[t].cols
                     THEN t ELSE docRow.by
    BY <1>3
  <2>5. docRow' \in DocRow
    BY <1>3, <2>1, <2>2, <2>3, <2>4 DEF DocRow
  <2> QED BY <1>3, <2>3, <2>4, <2>5 DEF Running
<1> QED BY <1>2, <1>3 DEF Flush

-----------------------------------------------------------------------------
LEMMA AnalyzeKeeps ==
  ASSUME DocumentsInv, NEW t \in Tasks, Analyze(t)
  PROVE  DocumentsInv'
<1> DEFINE x == TaskAt("queued", NoTask, NoTask)
<1>1. x \in Task /\ x.pc = "queued"
  BY Placed DEF TaskPcs
<1>2. /\ docRow # NoDoc /\ docRow' = docRow /\ chunks' = chunks
      /\ task' = [task EXCEPT ![t] = x] /\ RequestsUnchanged
  BY DEF Analyze, Go
<1> HIDE DEF x
<1> QED BY <1>1, <1>2, RowStays DEF Watches, Watching, TaskPcs, BlocksFit

LEMMA ReadDocumentKeeps ==
  ASSUME DocumentsInv, NEW t \in Tasks, ReadDocument(t)
  PROVE  DocumentsInv'
<1>1. /\ task[t].pc = "queued" /\ docRow' = docRow /\ chunks' = chunks
      /\ RequestsUnchanged
  BY DEF ReadDocument
<1>2. CASE docRow = NoDoc
  <2> DEFINE x == TaskAt("done", NoTask, NoTask)
  <2>1. x \in Task /\ x.pc = "done" /\ task' = [task EXCEPT ![t] = x]
    BY <1>2, Placed DEF TaskPcs, ReadDocument, Go
  <2> HIDE DEF x
  <2> QED BY <1>1, <1>2, <2>1, RowStays DEF Running, BlocksFit
<1>3. CASE docRow # NoDoc
  <2>1. Copy(t, "begin", docRow.blocks)
    BY <1>3 DEF ReadDocument
  <2>2. PICK x \in Task : /\ x.pc = "begin" /\ x.blocks = x.had
                         /\ task' = [task EXCEPT ![t] = x]
    BY <1>3, <2>1, Copied DEF TaskPcs
  <2> QED BY <1>1, <2>2, RowStays DEF Watches, Watching, TaskPcs, BlocksFit
<1> QED BY <1>2, <1>3

(* A merge that finds the row RUNNING will write its status.               *)
LEMMA MergeReadsKeeps ==
  ASSUME DocumentsInv, NEW t \in Tasks, MergeReads(t)
  PROVE  DocumentsInv'
<1>1. PICK save \in Saves :
        /\ task[t].pc = save.at
        /\ task' = [task EXCEPT
             ![t].pc = save.to, ![t].found = (docRow # NoDoc),
             ![t].cols = IF docRow = NoDoc THEN {}
                         ELSE Marked("status", save.status, docRow.status) \cup
                              IF save.at = "save" THEN {"blocks"}
                              ELSE Marked("blocks", task[t].blocks, docRow.blocks)]
  BY DEF MergeReads
<1> DEFINE cols == IF docRow = NoDoc THEN {}
                   ELSE Marked("status", save.status, docRow.status) \cup
                        IF save.at = "save" THEN {"blocks"}
                        ELSE Marked("blocks", task[t].blocks, docRow.blocks)
           x == [task[t] EXCEPT !.pc = save.to, !.found = (docRow # NoDoc), !.cols = cols]
<1>2. /\ <<save.at, save.to>> \in {<<"begin", "beginning">>, <<"save", "saving">>,
                                   <<"mark", "marking">>}
      /\ save.to \in {"saving", "marking"} => save.status # "running"
  BY DEF Saves
<1>3. task[t] \in Task /\ BlocksFit(task[t], t)
  BY DEF DocumentsInv, DocumentsTypeOK
<1>4. /\ cols \subseteq {"status", "blocks"}
      /\ docRow # NoDoc /\ save.status # docRow.status => "status" \in cols
  BY DEF Marked
<1>5. task' = [task EXCEPT ![t] = x]
  BY <1>1 DEF DocumentsInv, DocumentsTypeOK
<1> HIDE DEF cols
<1>6. /\ x \in Task /\ x.pc = save.to /\ x.blocks = task[t].blocks /\ x.had = task[t].had
      /\ x.found = (docRow # NoDoc) /\ x.cols = cols
  BY <1>2, <1>3, <1>4 DEF Task, TaskPcs
<1> HIDE DEF x
<1>7. BlocksFit(x, t)
  BY <1>1, <1>2, <1>3, <1>6 DEF BlocksFit
<1>8. Running => Watches(x)
  BY <1>2, <1>4, <1>6 DEF Watches, Watching, TaskPcs, Running
<1>9. docRow' = docRow /\ chunks' = chunks /\ RequestsUnchanged /\ task[t].pc # "unsent"
  BY <1>1, <1>2 DEF MergeReads
<1> QED BY <1>5, <1>6, <1>7, <1>8, <1>9, RowStays

LEMMA BeginTaskKeeps ==
  ASSUME DocumentsInv, NEW t \in Tasks, BeginTask(t)
  PROVE  DocumentsInv'
<1>1. /\ task[t].pc = "beginning" /\ chunks' = chunks /\ RequestsUnchanged
      /\ docRow \in DocRow \cup {NoDoc} /\ chunks \subseteq Tasks
  BY DEF BeginTask, DocumentsInv, DocumentsTypeOK
<1>2. PICK pc \in {"parse", "silent"} : Go(t, pc)
  BY DEF BeginTask
<1> DEFINE x == TaskAt(pc, NoTask, NoTask)
<1>3. x \in Task /\ x.pc \in {"parse", "silent"} /\ task' = [task EXCEPT ![t] = x]
  BY <1>2, Placed DEF TaskPcs, Go
<1> HIDE DEF x
<1>4. Watches(x) /\ BlocksFit(x, t)
  BY <1>3 DEF Watches, Watching, TaskPcs, BlocksFit
<1>5. CASE docRow' = docRow
  BY <1>1, <1>3, <1>4, <1>5, RowStays
<1>6. CASE Flush(t, "running")
  <2>1. docRow' \in DocRow
          /\ (Running' => docRow'.by = t \/ (Running /\ docRow'.by = docRow.by))
    BY <1>6, FlushFits DEF Statuses
  <2> QED BY <1>1, <1>3, <1>4, <2>1, TaskMoves
<1> QED BY <1>5, <1>6 DEF BeginTask, SaveStatus

LEMMA ParseKeeps ==
  ASSUME DocumentsInv, NEW t \in Tasks, Parse(t)
  PROVE  DocumentsInv'
<1>1. PICK x \in {TaskAt("save", t, NoTask), TaskAt("fail", NoTask, NoTask)} :
        task' = [task EXCEPT ![t] = x]
  BY DEF Parse, Go
<1>2. x \in Task /\ x.pc \in {"save", "fail"} /\ (x.pc = "save" => x.blocks = t)
  BY <1>1, Placed DEF TaskPcs
<1>3. task[t].pc = "parse" /\ docRow' = docRow /\ chunks' = chunks /\ RequestsUnchanged
  BY DEF Parse
<1> QED BY <1>1, <1>2, <1>3, RowStays DEF Watches, Watching, TaskPcs, BlocksFit

(* The row that t left RUNNING is not RUNNING after t's own save.          *)
LEMMA SavedIsOver ==
  ASSUME DocumentsInv, NEW t \in Tasks, NEW status \in {"completed", "failed"},
         task[t].pc \in {"saving", "marking"}, Flush(t, status)
  PROVE  /\ docRow' \in DocRow
         /\ Running' => Running /\ docRow'.by = docRow.by /\ docRow.by # t
<1>1. /\ docRow' \in DocRow
      /\ Running' => /\ Running /\ docRow'.by = docRow.by
                     /\ task[t].found /\ "status" \notin task[t].cols
  BY FlushFits DEF Statuses
<1>2. Running /\ docRow.by = t => "status" \in task[t].cols
  BY DEF DocumentsInv, Watched, Watches
<1> QED BY <1>1, <1>2

LEMMA SaveResultKeeps ==
  ASSUME DocumentsInv, NEW t \in Tasks, SaveResult(t)
  PROVE  DocumentsInv'
<1>1. /\ task[t].pc = "saving" /\ RequestsUnchanged
      /\ docRow \in DocRow \cup {NoDoc} /\ chunks \subseteq Tasks
  BY DEF SaveResult, DocumentsInv, DocumentsTypeOK
<1>2. CASE Go(t, "fail") /\ UNCHANGED <<docRow, chunks>>
  <2> DEFINE x == TaskAt("fail", NoTask, NoTask)
  <2>1. x \in Task /\ x.pc = "fail" /\ task' = [task EXCEPT ![t] = x]
    BY <1>2, Placed DEF TaskPcs, Go
  <2> HIDE DEF x
  <2> QED BY <1>1, <1>2, <2>1, RowStays DEF Watches, Watching, TaskPcs, BlocksFit
<1>3. ASSUME Flush(t, "completed"), chunks' = chunks \cup {t}, NEW pc \in {"done", "queued"},
             Go(t, pc)
      PROVE  DocumentsInv'
  <2> DEFINE x == TaskAt(pc, NoTask, NoTask)
  <2>1. x \in Task /\ x.pc \in {"done", "queued"} /\ task' = [task EXCEPT ![t] = x]
    BY <1>3, Placed DEF TaskPcs, Go
  <2> HIDE DEF x
  <2>2. docRow' \in DocRow
          /\ (Running' => Running /\ docRow'.by = docRow.by /\ docRow.by # t)
    BY <1>1, <1>3, SavedIsOver
  <2> QED BY <1>1, <1>3, <2>1, <2>2, TaskMoves DEF BlocksFit
<1> QED BY <1>2, <1>3 DEF SaveResult

LEMMA MarkReadsKeeps ==
  ASSUME DocumentsInv, NEW t \in Tasks, MarkReads(t)
  PROVE  DocumentsInv'
<1>1. /\ task[t].pc = "fail" /\ docRow' = docRow /\ chunks' = chunks
      /\ RequestsUnchanged
  BY DEF MarkReads
<1>2. CASE docRow = NoDoc
  <2> DEFINE x == TaskAt("done", NoTask, NoTask)
  <2>1. x \in Task /\ x.pc = "done" /\ task' = [task EXCEPT ![t] = x]
    BY <1>2, Placed DEF TaskPcs, MarkReads, Go
  <2> HIDE DEF x
  <2> QED BY <1>1, <1>2, <2>1, RowStays DEF Running, BlocksFit
<1>3. CASE docRow # NoDoc
  <2>1. Copy(t, "mark", docRow.blocks)
    BY <1>3 DEF MarkReads
  <2>2. PICK x \in Task : /\ x.pc = "mark" /\ x.blocks = x.had
                         /\ task' = [task EXCEPT ![t] = x]
    BY <1>3, <2>1, Copied DEF TaskPcs
  <2> QED BY <1>1, <2>2, RowStays DEF Watches, Watching, TaskPcs, BlocksFit
<1> QED BY <1>2, <1>3

LEMMA MarkFailedKeeps ==
  ASSUME DocumentsInv, NEW t \in Tasks, MarkFailed(t)
  PROVE  DocumentsInv'
<1>1. /\ task[t].pc = "marking" /\ chunks' = chunks /\ RequestsUnchanged
      /\ docRow \in DocRow \cup {NoDoc} /\ chunks \subseteq Tasks
  BY DEF MarkFailed, DocumentsInv, DocumentsTypeOK
<1>2. PICK pc \in {"done", "queued"} : Go(t, pc)
  BY DEF MarkFailed
<1> DEFINE x == TaskAt(pc, NoTask, NoTask)
<1>3. /\ x \in Task /\ x.pc \in {"done", "queued"} /\ task' = [task EXCEPT ![t] = x]
      /\ BlocksFit(x, t)
  BY <1>2, Placed DEF TaskPcs, Go, BlocksFit
<1> HIDE DEF x
<1>4. CASE Flush(t, "failed")
  <2>1. docRow' \in DocRow
          /\ (Running' => Running /\ docRow'.by = docRow.by /\ docRow.by # t)
    BY <1>1, <1>4, SavedIsOver
  <2> QED BY <1>1, <1>3, <2>1, TaskMoves
<1>5. CASE docRow = NoDoc /\ UNCHANGED docRow
  BY <1>1, <1>3, <1>5, RowStays DEF Running
<1> QED BY <1>4, <1>5 DEF MarkFailed, SaveStatus

LEMMA EndingKeeps ==
  ASSUME DocumentsInv, NEW t \in Tasks, MarkFails(t) \/ WorkerDies(t)
  PROVE  DocumentsInv'
<1>1. PICK pc \in {"silent", "queued"} : Go(t, pc)
  BY DEF MarkFails, WorkerDies
<1> DEFINE x == TaskAt(pc, NoTask, NoTask)
<1>2. x \in Task /\ x.pc \in {"silent", "queued"} /\ task' = [task EXCEPT ![t] = x]
  BY <1>1, Placed DEF TaskPcs, Go
<1>3. /\ task[t].pc # "unsent" /\ docRow' = docRow /\ chunks' = chunks
      /\ RequestsUnchanged
  BY DEF MarkFails, WorkerDies
<1> HIDE DEF x
<1> QED BY <1>2, <1>3, RowStays DEF Watches, Watching, TaskPcs, BlocksFit

LEMMA RequestsKeep ==
  ASSUME DocumentsInv, UploadFile \/ InsertRow \/ DeleteFile \/ DeleteRows
  PROVE  DocumentsInv'
<1>1. CASE UploadFile \/ DeleteFile
  BY <1>1 DEF UploadFile, DeleteFile, DocumentsInv, DocumentsTypeOK, Watched, Watches,
     Running, UploadFirst, BlocksFit
<1>2. CASE InsertRow
  <2>1. /\ docRow' \in DocRow /\ docRow'.status = "pending"
        /\ uploading' = "no" /\ UNCHANGED <<docFile, chunks, task, deleting>>
    BY <1>2 DEF InsertRow, DocRow, Statuses
  <2> QED BY <2>1 DEF DocumentsInv, DocumentsTypeOK, Watched, Watches, Running,
     UploadFirst, BlocksFit
<1>3. CASE DeleteRows
  BY <1>3 DEF DeleteRows, DocumentsInv, DocumentsTypeOK, Watched, Watches, Running,
     UploadFirst, BlocksFit
<1> QED BY <1>1, <1>2, <1>3

-----------------------------------------------------------------------------
(* The inductive invariant holds in every reachable state.                 *)
THEOREM DocumentsInvariant == DocumentsSpec => []DocumentsInv
<1>1. DocumentsInv /\ DocumentsNext => DocumentsInv'
  BY RequestsKeep, AnalyzeKeeps, ReadDocumentKeeps, MergeReadsKeeps, BeginTaskKeeps,
     ParseKeeps, SaveResultKeeps, MarkReadsKeeps, MarkFailedKeeps, EndingKeeps
     DEF DocumentsNext
<1>2. DocumentsInv /\ UNCHANGED docVars => DocumentsInv'
  BY DEF DocumentsInv, docVars, DocumentsTypeOK, Watched, Watches, Running, UploadFirst,
     BlocksFit
<1> QED BY DocumentsInitially, <1>1, <1>2, PTL DEF DocumentsSpec

(* A RUNNING row is watched by the task that wrote it, or that task ended  *)
(* without a word.                                                         *)
THEOREM RunningAlwaysWatched == DocumentsSpec => []RunningIsWatched
<1>1. DocumentsInv => RunningIsWatched
  BY DEF DocumentsInv, Watched, Watches, Running, Watching, RunningIsWatched
<1> QED BY <1>1, DocumentsInvariant, PTL

(* No step takes the blocks or their chunks from a row that stays, but the *)
(* mark of a task whose copy is older than they are.                       *)
THEOREM ResultsAlwaysKept == DocumentsSpec => ResultsKept
<1> DEFINE Keeps == docRow # NoDoc /\ docRow.blocks \in chunks /\ docRow' # NoDoc =>
                      /\ chunks \subseteq chunks'
                      /\ \/ docRow'.blocks \in chunks'
                         \/ \E t \in Tasks : Overtaken(t) /\ docRow'.blocks = task[t].blocks
<1>1. DocumentsInv /\ DocumentsNext => Keeps
  <2> SUFFICES ASSUME DocumentsInv, DocumentsNext, docRow # NoDoc,
                      docRow.blocks \in chunks, docRow' # NoDoc
               PROVE  /\ chunks \subseteq chunks'
                      /\ \/ docRow'.blocks \in chunks'
                         \/ \E t \in Tasks : Overtaken(t) /\ docRow'.blocks = task[t].blocks
    OBVIOUS
  <2>1. CASE docRow' = docRow /\ chunks' = chunks
    BY <2>1
  <2>2. ASSUME NEW t \in Tasks, NEW status, Flush(t, status)
        PROVE  docRow'.blocks \in {task[t].blocks, docRow.blocks}
    BY <2>2 DEF Flush, Written
  <2>3. ASSUME NEW t \in Tasks, BeginTask(t) \/ MarkFailed(t), docRow' # docRow
        PROVE  /\ chunks' = chunks
               /\ docRow'.blocks = docRow.blocks
                  \/ (Overtaken(t) /\ docRow'.blocks = task[t].blocks)
    <3>1. /\ chunks' = chunks /\ docRow'.blocks \in {task[t].blocks, docRow.blocks}
          /\ task[t].pc \in {"beginning", "marking"}
      BY <2>2, <2>3 DEF BeginTask, MarkFailed, SaveStatus
    <3>2. task[t].blocks = task[t].had
      BY <3>1 DEF DocumentsInv, BlocksFit
    <3> QED BY <3>1, <3>2 DEF Overtaken
  <2>4. ASSUME NEW t \in Tasks, BeginTask(t) \/ MarkFailed(t), docRow' = docRow
        PROVE  chunks' = chunks
    BY <2>4 DEF BeginTask, MarkFailed
  <2>5. ASSUME NEW t \in Tasks, SaveResult(t)
        PROVE  \/ docRow' = docRow /\ chunks' = chunks
               \/ docRow'.blocks \in {t, docRow.blocks} /\ chunks' = chunks \cup {t}
    <3>1. task[t].blocks = t
      BY <2>5 DEF SaveResult, DocumentsInv, BlocksFit
    <3> QED BY <2>2, <2>5, <3>1 DEF SaveResult
  <2>6. ~InsertRow
    BY DEF InsertRow, DocumentsInv, UploadFirst
  <2>7. CASE \E t \in Tasks : BeginTask(t) \/ MarkFailed(t)
    BY <2>1, <2>3, <2>4, <2>7
  <2>8. CASE \E t \in Tasks : SaveResult(t)
    BY <2>1, <2>5, <2>8
  <2>9. CASE UploadFile \/ DeleteFile \/ DeleteRows
    BY <2>1, <2>9 DEF UploadFile, DeleteFile, DeleteRows
  <2>10. CASE \E t \in Tasks : \/ Analyze(t) \/ ReadDocument(t) \/ MergeReads(t) \/ Parse(t)
                               \/ MarkReads(t) \/ MarkFails(t) \/ WorkerDies(t)
    BY <2>1, <2>10 DEF Analyze, ReadDocument, MergeReads, Parse, MarkReads, MarkFails,
       WorkerDies
  <2> QED BY <2>6, <2>7, <2>8, <2>9, <2>10 DEF DocumentsNext
<1>2. DocumentsInv /\ UNCHANGED docVars => Keeps
  BY DEF docVars
<1>3. DocumentsInv /\ [DocumentsNext]_docVars => Keeps
  BY <1>1, <1>2
<1> QED BY <1>3, DocumentsInvariant, PTL DEF DocumentsSpec, ResultsKept

-----------------------------------------------------------------------------
(* The personal memory: the index names stored files, the debounce window  *)
(* is claimed once, and a container keeps what it listed itself.           *)

BoxStates ==
  [pc : {"idle", "reload", "read", "claim", "file", "load", "generation", "index"},
   now : 0 .. MaxTime, gen : Nat, file : Files \cup {0}, refs : SUBSET Files,
   cache : (SUBSET Files) \cup {NoCache}, listed : SUBSET Files]

Cached(x) == IF x.cache = NoCache THEN {} ELSE x.cache

(* What a container has in hand, given the files stored, the claim and the *)
(* files whose line in the index can be read back.  A node about to upload *)
(* a claim with the generation the claim still has has seen that the       *)
(* window is over.                                                         *)
BoxOK(x, stored, claimed, known) ==
  /\ x.pc # "idle" => x.file \in Files
  /\ x.refs \subseteq stored /\ Cached(x) \subseteq stored
  /\ x.pc \in {"load", "generation", "index"} => x.file \in stored
  /\ x.listed \subseteq stored /\ x.listed \cap known \subseteq Cached(x)
  /\ x.pc \in {"generation", "index"} => x.listed \cap known \subseteq x.refs
  /\ x.pc \in {"read", "claim"} => x.gen <= claimed.gen
  /\ x.pc = "claim" /\ x.gen > 0 /\ x.gen = claimed.gen
       => claimed.at + Window <= x.now

ObjectsOK(stored, claimed, indexed) ==
  /\ stored \subseteq Files
  /\ claimed \in [gen : Nat, at : 0 .. MaxTime]
  /\ indexed \in [gen : Nat, names : SUBSET Files]
  /\ indexed.names \subseteq stored

MemoryInv ==
  /\ clock \in 0 .. MaxTime /\ ObjectsOK(files, claim, index) /\ described \subseteq Files
  /\ box \in [Boxes -> BoxStates]
  /\ \A b \in Boxes : BoxOK(box[b], files, claim, described)

LEMMA MemoryInitially == MemoryInit => MemoryInv
<1> SUFFICES ASSUME MemoryInit PROVE MemoryInv
  OBVIOUS
<1>1. 0 \in 0 .. MaxTime
  BY MemoryAssumption
<1>2. ObjectsOK(files, claim, index)
  BY <1>1 DEF MemoryInit, ObjectsOK
<1>3. \A b \in Boxes : box[b] \in BoxStates /\ BoxOK(box[b], files, claim, described)
  BY <1>1 DEF MemoryInit, BoxStates, BoxOK, Cached
<1>4. box \in [Boxes -> BoxStates]
  BY <1>3 DEF MemoryInit
<1> QED BY <1>1, <1>2, <1>3, <1>4 DEF MemoryInit, MemoryInv

(* Files only grow and a new claim has a new generation, so what the other *)
(* containers have in hand stays good.                                     *)
LEMMA OtherBoxes ==
  ASSUME NEW x \in BoxStates, NEW stored, NEW stored2, NEW claimed, NEW claimed2,
         NEW known, NEW known2,
         BoxOK(x, stored, claimed, known), stored \subseteq stored2,
         known2 \cap stored = known \cap stored,
         claimed \in [gen : Nat, at : 0 .. MaxTime],
         claimed2 = claimed \/ claimed2.gen = claimed.gen + 1
  PROVE  BoxOK(x, stored2, claimed2, known2)
<1>1. x.gen \in Nat /\ claimed.gen \in Nat
  BY DEF BoxStates
<1>0. /\ x.pc \in {"generation", "index"} => x.listed \cap known2 \subseteq x.refs
      /\ x.listed \cap known2 \subseteq Cached(x)
  BY DEF BoxOK
<1>2. CASE claimed2 = claimed
  BY <1>0, <1>2 DEF BoxOK
<1>3. CASE claimed2.gen = claimed.gen + 1
  <2>1. x.pc \in {"read", "claim"} => x.gen <= claimed2.gen /\ x.gen # claimed2.gen
    BY <1>1, <1>3 DEF BoxOK
  <2> QED BY <1>0, <2>1 DEF BoxOK
<1> QED BY <1>2, <1>3

LEMMA BoxMoves ==
  ASSUME MemoryInv, NEW b \in Boxes, NEW x \in BoxStates, Move(b, x),
         clock' \in 0 .. MaxTime, ObjectsOK(files', claim', index'),
         files \subseteq files', claim' = claim \/ claim'.gen = claim.gen + 1,
         described' \subseteq Files, described' \cap files = described \cap files,
         BoxOK(x, files', claim', described')
  PROVE  MemoryInv'
<1>1. box' \in [Boxes -> BoxStates] /\ \A c \in Boxes : box'[c] = IF c = b THEN x ELSE box[c]
  BY DEF MemoryInv, Move
<1>2. \A c \in Boxes : BoxOK(box'[c], files', claim', described')
  <2> SUFFICES ASSUME NEW c \in Boxes, c # b PROVE BoxOK(box[c], files', claim', described')
    BY <1>1
  <2>1. box[c] \in BoxStates /\ BoxOK(box[c], files, claim, described)
    BY DEF MemoryInv
  <2>2. claim \in [gen : Nat, at : 0 .. MaxTime]
    BY DEF MemoryInv, ObjectsOK
  <2> QED BY <2>1, <2>2, OtherBoxes
<1> QED BY <1>1, <1>2 DEF MemoryInv

(* A node that ends leaves nothing behind but the cache.                   *)
LEMMA OverOK ==
  ASSUME MemoryInv, NEW b \in Boxes
  PROVE  /\ NodeOver(b) \in BoxStates
         /\ NodeOver(b).cache = box[b].cache /\ NodeOver(b).listed = box[b].listed
         /\ NodeOver(b).pc = "idle" /\ NodeOver(b).refs = {}
         /\ NodeOver(b).gen = 0 /\ NodeOver(b).file = 0 /\ NodeOver(b).now = 0
         /\ box[b] \in BoxStates /\ BoxOK(box[b], files, claim, described)
<1>1. box[b] \in BoxStates /\ BoxOK(box[b], files, claim, described) /\ 0 \in 0 .. MaxTime
  BY MemoryAssumption DEF MemoryInv
<1> QED BY <1>1 DEF NodeOver, BoxStates

LEMMA WaitsKeeps ==
  ASSUME MemoryInv, NEW b \in Boxes, Waits(b),
         clock' \in 0 .. MaxTime, ObjectsOK(files', claim', index'),
         files \subseteq files', claim' = claim \/ claim'.gen = claim.gen + 1,
         described' = described
  PROVE  MemoryInv'
<1>0. described \subseteq Files
  BY DEF MemoryInv
<1>1. BoxOK(NodeOver(b), files', claim', described')
  BY OverOK DEF BoxOK, Cached
<1> QED BY <1>0, <1>1, OverOK, BoxMoves DEF Waits

(* Nothing in the bucket changes.                                          *)
LEMMA ObjectsStay ==
  ASSUME MemoryInv, ObjectsUnchanged
  PROVE  /\ clock' \in 0 .. MaxTime /\ ObjectsOK(files', claim', index')
         /\ files \subseteq files' /\ claim' = claim
         /\ described' = described /\ described' \subseteq Files
  BY DEF MemoryInv, ObjectsUnchanged

(* The description of a new file is nobody's concern yet.                  *)
LEMMA EnterKeeps ==
  ASSUME MemoryInv, NEW b \in Boxes, NEW f \in Files, EnterSaveMemory(b, f)
  PROVE  MemoryInv'
<1> DEFINE x == [box[b] EXCEPT !.pc = "reload", !.now = clock, !.file = f]
<1>1. /\ clock \in 0 .. MaxTime /\ Move(b, x) /\ f \notin files
      /\ UNCHANGED <<clock, claim, index, files>>
  BY DEF MemoryInv, EnterSaveMemory, FreshFile, At
<1>2. x \in BoxStates
  BY ZenonT(30), <1>1, OverOK DEF BoxStates
<1>3. BoxOK(x, files, claim, described')
  <2>1. /\ x.cache = box[b].cache /\ x.listed = box[b].listed /\ x.refs = box[b].refs
        /\ x.pc = "reload" /\ x.file = f
        /\ box[b].listed \cap described' \subseteq Cached(box[b])
    BY <1>1, OverOK DEF BoxOK, BoxStates, EnterSaveMemory
  <2> HIDE DEF x
  <2> QED BY <2>1, OverOK DEF BoxOK, Cached
<1>4. described' \subseteq Files /\ described' \cap files = described \cap files
  BY <1>1 DEF EnterSaveMemory, MemoryInv
<1>5. ObjectsOK(files', claim', index') /\ clock' \in 0 .. MaxTime
  BY <1>1 DEF MemoryInv
<1> HIDE DEF x
<1> QED BY <1>1, <1>2, <1>3, <1>4, <1>5, BoxMoves

LEMMA ReloadKeeps ==
  ASSUME MemoryInv, NEW b \in Boxes, ReloadClaim(b)
  PROVE  MemoryInv'
<1>1. PICK pc \in {"read", "claim"}, g \in {0, claim.gen} :
        /\ Move(b, [box[b] EXCEPT !.pc = pc, !.gen = g])
        /\ pc = "claim" => g = 0
  BY DEF ReloadClaim
<1> DEFINE x == [box[b] EXCEPT !.pc = pc, !.gen = g]
<1>2. claim.gen \in Nat /\ g \in Nat /\ box[b].pc = "reload" /\ ObjectsUnchanged
  BY DEF MemoryInv, ObjectsOK, ReloadClaim, At
<1>3. x \in BoxStates
  BY ZenonT(30), <1>2, OverOK DEF BoxStates
<1>4. BoxOK(x, files, claim, described)
  BY <1>1, <1>2, OverOK DEF BoxOK, Cached, BoxStates
<1>5. Move(b, x)
  BY <1>1
<1> HIDE DEF x
<1> QED BY <1>2, <1>3, <1>4, <1>5, ObjectsStay, BoxMoves DEF ObjectsUnchanged

LEMMA ReadKeeps ==
  ASSUME MemoryInv, NEW b \in Boxes, ReadClaim(b)
  PROVE  MemoryInv'
<1>1. /\ box[b] \in BoxStates /\ BoxOK(box[b], files, claim, described) /\ box[b].pc = "read"
      /\ claim \in [gen : Nat, at : 0 .. MaxTime] /\ ObjectsUnchanged
  BY OverOK DEF MemoryInv, ObjectsOK, ReadClaim, At
<1>2. CASE Waits(b)
  BY <1>1, <1>2, ObjectsStay, WaitsKeeps
<1>3. CASE /\ ~(claim.at + Window > box[b].now)
           /\ Move(b, [box[b] EXCEPT !.pc = "claim"])
  <2> DEFINE x == [box[b] EXCEPT !.pc = "claim"]
  <2>1. x \in BoxStates
    BY <1>1 DEF BoxStates
  <2>2. claim.at + Window <= box[b].now
    BY <1>1, <1>3, MemoryAssumption DEF BoxStates
  <2>3. BoxOK(x, files, claim, described)
    BY <1>1, <2>2 DEF BoxOK, Cached, BoxStates
  <2>4. Move(b, x)
    BY <1>3
  <2> HIDE DEF x
  <2> QED BY <1>1, <2>1, <2>3, <2>4, ObjectsStay, BoxMoves DEF ObjectsUnchanged
<1>4. CASE Move(b, [box[b] EXCEPT !.pc = "claim", !.gen = 0])
  <2> DEFINE x == [box[b] EXCEPT !.pc = "claim", !.gen = 0]
  <2>1. x \in BoxStates
    BY <1>1 DEF BoxStates
  <2>2. BoxOK(x, files, claim, described)
    BY <1>1 DEF BoxOK, Cached, BoxStates
  <2>3. Move(b, x)
    BY <1>4
  <2> HIDE DEF x
  <2> QED BY <1>1, <2>1, <2>2, <2>3, ObjectsStay, BoxMoves DEF ObjectsUnchanged
<1> QED BY <1>2, <1>3, <1>4 DEF ReadClaim

(* The upload of a claim, successful or not; the window is over.           *)
LEMMA ClaimKeeps ==
  ASSUME MemoryInv, NEW b \in Boxes, Claim(b)
  PROVE  /\ MemoryInv'
         /\ claim' # claim /\ claim.gen > 0 => claim'.at >= claim.at + Window
<1>1. /\ box[b] \in BoxStates /\ BoxOK(box[b], files, claim, described) /\ box[b].pc = "claim"
      /\ claim \in [gen : Nat, at : 0 .. MaxTime] /\ UNCHANGED <<clock, index, files, described>>
      /\ clock' \in 0 .. MaxTime /\ files \subseteq files' /\ described \subseteq Files
  BY OverOK DEF MemoryInv, ObjectsOK, Claim, At
<1>2. CASE Waits(b) /\ UNCHANGED claim
  <2>1. ObjectsOK(files', claim', index')
    BY <1>1, <1>2 DEF MemoryInv
  <2> QED BY <1>1, <1>2, <2>1, WaitsKeeps
<1>3. CASE /\ claim.gen = box[b].gen
           /\ claim' = [gen |-> claim.gen + 1, at |-> box[b].now]
           /\ Move(b, [box[b] EXCEPT !.pc = "file", !.gen = 0]) \/ Waits(b)
  <2> DEFINE x == [box[b] EXCEPT !.pc = "file", !.gen = 0]
  <2>1. /\ claim' \in [gen : Nat, at : 0 .. MaxTime] /\ claim'.gen = claim.gen + 1
        /\ claim'.at = box[b].now
    BY <1>1, <1>3 DEF BoxStates
  <2>2. ObjectsOK(files', claim', index')
    BY <1>1, <2>1 DEF MemoryInv, ObjectsOK
  <2>3. x \in BoxStates
    BY <1>1 DEF BoxStates
  <2>4. BoxOK(x, files', claim', described')
    BY <1>1 DEF BoxOK, Cached, BoxStates
  <2>5. claim.gen > 0 => claim'.at >= claim.at + Window
    BY <1>1, <1>3, <2>1, MemoryAssumption DEF BoxOK, BoxStates
  <2>6. Move(b, x) \/ Waits(b)
    BY <1>3
  <2> HIDE DEF x
  <2> QED BY <1>1, <2>1, <2>2, <2>3, <2>4, <2>5, <2>6, BoxMoves, WaitsKeeps
<1> QED BY <1>2, <1>3 DEF Claim

LEMMA SaveFileKeeps ==
  ASSUME MemoryInv, NEW b \in Boxes, SaveFile(b)
  PROVE  MemoryInv'
<1>1. /\ box[b] \in BoxStates /\ BoxOK(box[b], files, claim, described) /\ box[b].pc = "file"
      /\ UNCHANGED <<clock, claim, index, described>> /\ described \subseteq Files
      /\ clock' \in 0 .. MaxTime
  BY OverOK DEF MemoryInv, SaveFile, At
<1>2. CASE Waits(b) /\ UNCHANGED files
  <2>1. ObjectsOK(files', claim', index') /\ files \subseteq files'
    BY <1>1, <1>2 DEF MemoryInv
  <2> QED BY <1>1, <1>2, <2>1, WaitsKeeps
<1>3. CASE /\ files' = files \cup {box[b].file}
           /\ Move(b, [box[b] EXCEPT !.pc = "load"]) \/ Waits(b)
  <2> DEFINE x == [box[b] EXCEPT !.pc = "load"]
  <2>1. ObjectsOK(files', claim', index') /\ files \subseteq files'
    BY <1>1, <1>3 DEF MemoryInv, ObjectsOK, BoxOK
  <2>2. x \in BoxStates
    BY <1>1 DEF BoxStates
  <2>3. BoxOK(x, files', claim', described')
    BY <1>1, <1>3 DEF BoxOK, Cached, BoxStates
  <2>4. Move(b, x) \/ Waits(b)
    BY <1>3
  <2> HIDE DEF x
  <2> QED BY <1>1, <2>1, <2>2, <2>3, <2>4, BoxMoves, WaitsKeeps
<1> QED BY <1>2, <1>3 DEF SaveFile

LEMMA LoadKeeps ==
  ASSUME MemoryInv, NEW b \in Boxes, LoadIndex(b)
  PROVE  MemoryInv'
<1>1. /\ box[b] \in BoxStates /\ BoxOK(box[b], files, claim, described) /\ box[b].pc = "load"
      /\ index.names \subseteq files /\ files \subseteq Files /\ ObjectsUnchanged
  BY OverOK DEF MemoryInv, ObjectsOK, LoadIndex, At
<1>2. ASSUME NEW x \in BoxStates, Move(b, x), BoxOK(x, files, claim, described)
      PROVE  MemoryInv'
  BY <1>1, <1>2, ObjectsStay, BoxMoves DEF ObjectsUnchanged
<1>3. CASE /\ box[b].cache # NoCache
           /\ Move(b, [box[b] EXCEPT !.pc = "generation", !.refs = Parsed(box[b].cache)])
  <2> DEFINE names == Parsed(box[b].cache)
             x == [box[b] EXCEPT !.pc = "generation", !.refs = names]
  <2>1. /\ names = box[b].cache \cap described /\ names \subseteq Files
        /\ names \subseteq files /\ box[b].listed \cap described \subseteq names
    BY <1>1, <1>3 DEF Parsed, BoxStates, BoxOK, Cached
  <2>2. Move(b, x)
    BY <1>3
  <2> HIDE DEF names
  <2>3. x \in BoxStates
    BY <1>1, <2>1 DEF BoxStates
  <2>4. BoxOK(x, files, claim, described)
    BY <1>1, <2>1 DEF BoxOK, Cached, BoxStates
  <2> HIDE DEF x
  <2> QED BY <1>2, <2>2, <2>3, <2>4
<1>4. CASE /\ box[b].cache = NoCache
           /\ Move(b, [box[b] EXCEPT !.pc = "generation", !.refs = Parsed(index.names),
                                     !.cache = index.names])
  <2> DEFINE names == Parsed(index.names)
             x == [box[b] EXCEPT !.pc = "generation", !.refs = names,
                                 !.cache = index.names]
  <2>1. names \subseteq index.names /\ names \subseteq Files /\ box[b].listed \cap described = {}
    BY <1>1, <1>4 DEF Parsed, BoxStates, BoxOK, Cached
  <2>2. Move(b, x)
    BY <1>4
  <2> HIDE DEF names
  <2>3. x \in BoxStates
    BY <1>1, <2>1 DEF BoxStates
  <2>4. BoxOK(x, files, claim, described)
    BY <1>1, <2>1 DEF BoxOK, Cached, BoxStates
  <2> HIDE DEF x
  <2> QED BY <1>2, <2>2, <2>3, <2>4
<1>5. CASE box[b].cache = NoCache /\ Move(b, [box[b] EXCEPT !.pc = "generation"])
  <2> DEFINE x == [box[b] EXCEPT !.pc = "generation"]
  <2>1. x \in BoxStates
    BY <1>1 DEF BoxStates
  <2>2. BoxOK(x, files, claim, described)
    BY <1>1, <1>5 DEF BoxOK, Cached, BoxStates
  <2>3. Move(b, x)
    BY <1>5
  <2> HIDE DEF x
  <2> QED BY <1>2, <2>1, <2>2, <2>3
<1> QED BY <1>3, <1>4, <1>5 DEF LoadIndex

LEMMA ReloadIndexKeeps ==
  ASSUME MemoryInv, NEW b \in Boxes, ReloadIndex(b)
  PROVE  MemoryInv'
<1>1. /\ box[b] \in BoxStates /\ BoxOK(box[b], files, claim, described)
      /\ box[b].pc = "generation" /\ index.gen \in Nat /\ ObjectsUnchanged
  BY OverOK DEF MemoryInv, ObjectsOK, ReloadIndex, At
<1>2. PICK g \in {0, index.gen} : Move(b, [box[b] EXCEPT !.pc = "index", !.gen = g])
  BY DEF ReloadIndex
<1> DEFINE x == [box[b] EXCEPT !.pc = "index", !.gen = g]
<1>6. g \in Nat
  BY <1>1
<1>3. x \in BoxStates
  BY <1>1, <1>6 DEF BoxStates
<1>4. BoxOK(x, files, claim, described)
  BY <1>1 DEF BoxOK, Cached, BoxStates
<1>5. Move(b, x)
  BY <1>2
<1> HIDE DEF x
<1> QED BY <1>1, <1>3, <1>4, <1>5, ObjectsStay, BoxMoves DEF ObjectsUnchanged

(* An upload of the index: only its own new entry is added to what the     *)
(* container listed, and all of that is in what it uploads.                *)
LEMMA UploadKeeps ==
  ASSUME MemoryInv, NEW b \in Boxes, UploadIndex(b)
  PROVE  /\ MemoryInv'
         /\ \A c \in Boxes : ~(box'[c].listed \subseteq box[c].listed)
              => Parsed(box'[c].listed) \subseteq index'.names
<1> DEFINE names == box[b].refs \cup {box[b].file}
<1>1. /\ box[b] \in BoxStates /\ BoxOK(box[b], files, claim, described) /\ box[b].pc = "index"
      /\ index.gen \in Nat /\ UNCHANGED <<clock, claim, files, described>>
      /\ described \subseteq Files
      /\ clock' \in 0 .. MaxTime /\ files \subseteq files' /\ files \subseteq Files
      /\ box \in [Boxes -> BoxStates]
  BY OverOK DEF MemoryInv, ObjectsOK, UploadIndex, At
<1>2. names \subseteq files /\ names \subseteq Files /\ names # NoCache
  BY <1>1, MemoryAssumption DEF BoxOK
<1>3. ASSUME Waits(b), ObjectsOK(files', claim', index')
      PROVE  /\ MemoryInv'
             /\ \A c \in Boxes : box'[c].listed \subseteq box[c].listed
  <2>1. MemoryInv'
    BY <1>1, <1>3, WaitsKeeps
  <2>2. \A c \in Boxes : box'[c] = IF c = b THEN NodeOver(b) ELSE box[c]
    BY <1>1, <1>3 DEF Waits, Move
  <2> QED BY <2>1, <2>2, OverOK
<1>4. CASE Waits(b) /\ UNCHANGED index
  <2>1. ObjectsOK(files', claim', index')
    BY <1>1, <1>4 DEF MemoryInv
  <2> QED BY <1>3, <1>4, <2>1
<1>5. CASE /\ index' = [gen |-> index.gen + 1, names |-> names]
           /\ \/ Move(b, [NodeOver(b) EXCEPT !.cache = names,
                                             !.listed = @ \cup {box[b].file}])
              \/ Waits(b)
  <2> DEFINE x == [NodeOver(b) EXCEPT !.cache = names, !.listed = @ \cup {box[b].file}]
  <2>1. ObjectsOK(files', claim', index') /\ index'.names = names
    BY <1>1, <1>2, <1>5 DEF MemoryInv, ObjectsOK
  <2>2. CASE Waits(b)
    BY <1>3, <2>1, <2>2
  <2>3. CASE Move(b, x)
    <3>1. /\ box[b].file \in Files /\ box[b].listed \subseteq files
          /\ box[b].listed \cap described \subseteq box[b].refs
      BY <1>1 DEF BoxOK
    <3>2. /\ x \in BoxStates /\ x.listed = box[b].listed \cup {box[b].file}
          /\ x.cache = names /\ x.pc = "idle" /\ x.refs = {}
      <4> HIDE DEF names
      <4> QED BY <1>1, <1>2, <3>1, OverOK DEF BoxStates
    <3>3. x.listed \cap described \subseteq names /\ x.listed \subseteq files
      BY <1>2, <3>1, <3>2
    <3>4. BoxOK(x, files', claim', described')
      <4> HIDE DEF x, names
      <4> QED BY <1>1, <1>2, <3>2, <3>3 DEF BoxOK, Cached
    <3>5. \A c \in Boxes : box'[c] = IF c = b THEN x ELSE box[c]
      BY <1>1, <2>3 DEF Move
    <3> HIDE DEF x, names
    <3>6. MemoryInv'
      BY <1>1, <2>1, <2>3, <3>2, <3>4, BoxMoves
    <3> QED BY <2>1, <3>3, <3>5, <3>6 DEF Parsed
  <2> QED BY <1>5, <2>2, <2>3
<1> QED BY <1>4, <1>5 DEF UploadIndex

LEMMA RestartKeeps ==
  ASSUME MemoryInv, NEW b \in Boxes, Restart(b)
  PROVE  MemoryInv'
<1> DEFINE x == [NodeOver(b) EXCEPT !.cache = NoCache, !.listed = {}]
<1>1. /\ x \in BoxStates /\ x.pc = "idle" /\ x.refs = {} /\ x.cache = NoCache
      /\ x.listed = {}
  BY OverOK DEF BoxStates
<1>2. BoxOK(x, files, claim, described)
  BY <1>1 DEF BoxOK, Cached
<1>3. Move(b, x) /\ ObjectsUnchanged
  BY DEF Restart
<1> HIDE DEF x
<1> QED BY <1>1, <1>2, <1>3, ObjectsStay, BoxMoves DEF ObjectsUnchanged

(* Only an upload of a claim changes the claim.                            *)
LEMMA ClaimChanges ==
  ASSUME MemoryInv, [MemoryNext]_memoryVars
  PROVE  claim' = claim \/ \E b \in Boxes : Claim(b)
<1> USE DEF ObjectsUnchanged
<1>1. CASE MemoryTick \/ UNCHANGED memoryVars
  BY <1>1 DEF MemoryTick, memoryVars
<1>2. ASSUME NEW b \in Boxes, NEW f \in Files, EnterSaveMemory(b, f) PROVE claim' = claim
  BY <1>2 DEF EnterSaveMemory
<1>3. ASSUME NEW b \in Boxes,
             \/ ReloadClaim(b) \/ ReadClaim(b) \/ SaveFile(b) \/ LoadIndex(b)
             \/ ReloadIndex(b) \/ UploadIndex(b) \/ Restart(b)
      PROVE  claim' = claim
  BY <1>3 DEF ReloadClaim, ReadClaim, SaveFile, LoadIndex, ReloadIndex, UploadIndex, Restart
<1> QED BY <1>1, <1>2, <1>3 DEF MemoryNext

(* Only an upload of the index adds to what a container has listed.        *)
LEMMA ListedGrows ==
  ASSUME MemoryInv, [MemoryNext]_memoryVars
  PROVE  \/ \A c \in Boxes : box'[c].listed \subseteq box[c].listed
         \/ \E b \in Boxes : UploadIndex(b)
<1>1. CASE MemoryTick \/ UNCHANGED memoryVars
  BY <1>1 DEF MemoryTick, memoryVars
<1>2. ASSUME NEW b \in Boxes, NEW x, Move(b, x), x.listed \subseteq box[b].listed
      PROVE  \A c \in Boxes : box'[c].listed \subseteq box[c].listed
  <2>1. \A c \in Boxes : box'[c] = IF c = b THEN x ELSE box[c]
    BY <1>2 DEF MemoryInv, Move
  <2> QED BY <1>2, <2>1
<1>3. ASSUME NEW b \in Boxes, Waits(b)
      PROVE  \A c \in Boxes : box'[c].listed \subseteq box[c].listed
  BY <1>2, <1>3, OverOK DEF Waits
<1>4. ASSUME NEW b \in Boxes, NEW f \in Files, EnterSaveMemory(b, f)
      PROVE  \A c \in Boxes : box'[c].listed \subseteq box[c].listed
  <2> DEFINE x == [box[b] EXCEPT !.pc = "reload", !.now = clock, !.file = f]
  <2>1. Move(b, x) /\ x.listed = box[b].listed
    BY <1>4, OverOK DEF EnterSaveMemory, BoxStates
  <2> HIDE DEF x
  <2> QED BY <1>2, <2>1
<1>5. ASSUME NEW b \in Boxes, ReloadClaim(b)
      PROVE  \A c \in Boxes : box'[c].listed \subseteq box[c].listed
  <2>0. box[b] \in BoxStates
    BY OverOK
  <2>1. ASSUME NEW g, Move(b, [box[b] EXCEPT !.pc = "read", !.gen = g])
        PROVE  \A c \in Boxes : box'[c].listed \subseteq box[c].listed
    <3> DEFINE x == [box[b] EXCEPT !.pc = "read", !.gen = g]
    <3>1. Move(b, x) /\ x.listed = box[b].listed
      BY <2>0, <2>1 DEF BoxStates
    <3> HIDE DEF x
    <3> QED BY <1>2, <3>1
  <2>2. ASSUME NEW g, Move(b, [box[b] EXCEPT !.pc = "claim", !.gen = g])
        PROVE  \A c \in Boxes : box'[c].listed \subseteq box[c].listed
    <3> DEFINE x == [box[b] EXCEPT !.pc = "claim", !.gen = g]
    <3>1. Move(b, x) /\ x.listed = box[b].listed
      BY <2>0, <2>2 DEF BoxStates
    <3> HIDE DEF x
    <3> QED BY <1>2, <3>1
  <2> QED BY <2>1, <2>2, <1>3, <1>5 DEF ReloadClaim
<1>6. ASSUME NEW b \in Boxes, ReadClaim(b)
      PROVE  \A c \in Boxes : box'[c].listed \subseteq box[c].listed
  <2>0. box[b] \in BoxStates
    BY OverOK
  <2>1. ASSUME Move(b, [box[b] EXCEPT !.pc = "claim"])
        PROVE  \A c \in Boxes : box'[c].listed \subseteq box[c].listed
    <3> DEFINE x == [box[b] EXCEPT !.pc = "claim"]
    <3>1. Move(b, x) /\ x.listed = box[b].listed
      BY <2>0, <2>1 DEF BoxStates
    <3> HIDE DEF x
    <3> QED BY <1>2, <3>1
  <2>2. ASSUME Move(b, [box[b] EXCEPT !.pc = "claim", !.gen = 0])
        PROVE  \A c \in Boxes : box'[c].listed \subseteq box[c].listed
    <3> DEFINE x == [box[b] EXCEPT !.pc = "claim", !.gen = 0]
    <3>1. Move(b, x) /\ x.listed = box[b].listed
      BY <2>0, <2>2 DEF BoxStates
    <3> HIDE DEF x
    <3> QED BY <1>2, <3>1
  <2> QED BY <2>1, <2>2, <1>3, <1>6 DEF ReadClaim
<1>7. ASSUME NEW b \in Boxes, Claim(b)
      PROVE  \A c \in Boxes : box'[c].listed \subseteq box[c].listed
  <2>0. box[b] \in BoxStates
    BY OverOK
  <2>1. ASSUME Move(b, [box[b] EXCEPT !.pc = "file", !.gen = 0])
        PROVE  \A c \in Boxes : box'[c].listed \subseteq box[c].listed
    <3> DEFINE x == [box[b] EXCEPT !.pc = "file", !.gen = 0]
    <3>1. Move(b, x) /\ x.listed = box[b].listed
      BY <2>0, <2>1 DEF BoxStates
    <3> HIDE DEF x
    <3> QED BY <1>2, <3>1
  <2> QED BY <2>1, <1>3, <1>7 DEF Claim
<1>8. ASSUME NEW b \in Boxes, SaveFile(b)
      PROVE  \A c \in Boxes : box'[c].listed \subseteq box[c].listed
  <2>0. box[b] \in BoxStates
    BY OverOK
  <2>1. ASSUME Move(b, [box[b] EXCEPT !.pc = "load"])
        PROVE  \A c \in Boxes : box'[c].listed \subseteq box[c].listed
    <3> DEFINE x == [box[b] EXCEPT !.pc = "load"]
    <3>1. Move(b, x) /\ x.listed = box[b].listed
      BY <2>0, <2>1 DEF BoxStates
    <3> HIDE DEF x
    <3> QED BY <1>2, <3>1
  <2> QED BY <2>1, <1>3, <1>8 DEF SaveFile
<1>9. ASSUME NEW b \in Boxes, LoadIndex(b)
      PROVE  \A c \in Boxes : box'[c].listed \subseteq box[c].listed
  <2>0. box[b] \in BoxStates
    BY OverOK
  <2>1. ASSUME Move(b, [box[b] EXCEPT !.pc = "generation", !.refs = Parsed(box[b].cache)])
        PROVE  \A c \in Boxes : box'[c].listed \subseteq box[c].listed
    <3> DEFINE x == [box[b] EXCEPT !.pc = "generation", !.refs = Parsed(box[b].cache)]
    <3>1. Move(b, x) /\ x.listed = box[b].listed
      BY <2>0, <2>1 DEF BoxStates
    <3> HIDE DEF x
    <3> QED BY <1>2, <3>1
  <2>2. ASSUME Move(b, [box[b] EXCEPT !.pc = "generation", !.refs = Parsed(index.names),
                                      !.cache = index.names])
        PROVE  \A c \in Boxes : box'[c].listed \subseteq box[c].listed
    <3> DEFINE x == [box[b] EXCEPT !.pc = "generation", !.refs = Parsed(index.names),
                                   !.cache = index.names]
    <3>1. Move(b, x) /\ x.listed = box[b].listed
      BY <2>0, <2>2 DEF BoxStates
    <3> HIDE DEF x
    <3> QED BY <1>2, <3>1
  <2>3. ASSUME Move(b, [box[b] EXCEPT !.pc = "generation"])
        PROVE  \A c \in Boxes : box'[c].listed \subseteq box[c].listed
    <3> DEFINE x == [box[b] EXCEPT !.pc = "generation"]
    <3>1. Move(b, x) /\ x.listed = box[b].listed
      BY <2>0, <2>3 DEF BoxStates
    <3> HIDE DEF x
    <3> QED BY <1>2, <3>1
  <2> QED BY <2>1, <2>2, <2>3, <1>3, <1>9 DEF LoadIndex
<1>10. ASSUME NEW b \in Boxes, ReloadIndex(b)
      PROVE  \A c \in Boxes : box'[c].listed \subseteq box[c].listed
  <2>0. box[b] \in BoxStates
    BY OverOK
  <2>1. ASSUME NEW g, Move(b, [box[b] EXCEPT !.pc = "index", !.gen = g])
        PROVE  \A c \in Boxes : box'[c].listed \subseteq box[c].listed
    <3> DEFINE x == [box[b] EXCEPT !.pc = "index", !.gen = g]
    <3>1. Move(b, x) /\ x.listed = box[b].listed
      BY <2>0, <2>1 DEF BoxStates
    <3> HIDE DEF x
    <3> QED BY <1>2, <3>1
  <2> QED BY <2>1, <1>3, <1>10 DEF ReloadIndex
<1>11. ASSUME NEW b \in Boxes, Restart(b)
      PROVE  \A c \in Boxes : box'[c].listed \subseteq box[c].listed
  <2> DEFINE x == [NodeOver(b) EXCEPT !.cache = NoCache, !.listed = {}]
  <2>1. Move(b, x) /\ x.listed = {}
    BY <1>11, OverOK DEF Restart, BoxStates
  <2> HIDE DEF x
  <2> QED BY <1>2, <2>1
<1> QED BY <1>1, <1>4, <1>5, <1>6, <1>7, <1>8, <1>9, <1>10, <1>11 DEF MemoryNext

LEMMA MemoryInductive == MemoryInv /\ [MemoryNext]_memoryVars => MemoryInv'
<1> SUFFICES ASSUME MemoryInv, [MemoryNext]_memoryVars PROVE MemoryInv'
  OBVIOUS
<1>1. CASE MemoryTick \/ UNCHANGED memoryVars
  <2>1. clock' \in 0 .. MaxTime /\ UNCHANGED <<claim, index, files, described, box>>
    BY <1>1, MemoryAssumption DEF MemoryTick, memoryVars, MemoryInv
  <2> QED BY <2>1 DEF MemoryInv
<1>2. ASSUME NEW b \in Boxes, NEW f \in Files, EnterSaveMemory(b, f) PROVE MemoryInv'
  BY <1>2, EnterKeeps
<1>3. ASSUME NEW b \in Boxes,
             \/ ReloadClaim(b) \/ ReadClaim(b) \/ Claim(b) \/ SaveFile(b)
             \/ LoadIndex(b) \/ ReloadIndex(b) \/ UploadIndex(b) \/ Restart(b)
      PROVE  MemoryInv'
  BY <1>3, ReloadKeeps, ReadKeeps, ClaimKeeps, SaveFileKeeps, LoadKeeps,
     ReloadIndexKeeps, UploadKeeps, RestartKeeps
<1> QED BY <1>1, <1>2, <1>3 DEF MemoryNext

(* The index never names a file that is not in the bucket.                 *)
THEOREM MemoryIndex == MemorySpec => []IndexNamesStoredFiles
<1>1. MemoryInv => IndexNamesStoredFiles
  BY DEF MemoryInv, ObjectsOK, IndexNamesStoredFiles
<1> QED BY <1>1, MemoryInitially, MemoryInductive, PTL DEF MemorySpec

(* The debounce window is claimed once, however many containers race.      *)
THEOREM MemoryDebounce == MemorySpec => OneClaimPerWindow
<1>1. MemoryInv /\ [MemoryNext]_memoryVars
        => [claim' # claim /\ claim.gen > 0 => claim'.at >= claim.at + Window]_memoryVars
  BY ClaimChanges, ClaimKeeps
<1> QED BY <1>1, MemoryInitially, MemoryInductive, PTL DEF MemorySpec, OneClaimPerWindow

(* A container's new entry never pushes out one with a description that it *)
(* listed before.                                                          *)
THEOREM MemoryOwnEntries == MemorySpec => OwnEntriesKept
<1>1. MemoryInv /\ [MemoryNext]_memoryVars
        => [\A b \in Boxes : ~(box'[b].listed \subseteq box[b].listed)
              => Parsed(box'[b].listed) \subseteq index'.names]_memoryVars
  BY ListedGrows, UploadKeeps
<1> QED BY <1>1, MemoryInitially, MemoryInductive, PTL DEF MemorySpec, OwnEntriesKept

-----------------------------------------------------------------------------
(* The OAuth connection.  Neither ExpiryIsHonest nor FreshWhenInjected is  *)
(* inductive: what an attempt has in hand between its steps has to be      *)
(* honest too.                                                             *)

(* A token waiting to be stored lives at least as long as the row will say.*)
StoredLater ==
  \A n \in Nodes : node[n].pc = "store" => node[n].now + Life <= node[n].token

(* A token waiting for its refresh is described honestly by what was read. *)
ReadHonestly ==
  \A n \in Nodes : node[n].pc = "refresh" =>
    /\ node[n].now <= hour
    /\ node[n].expires # Unknown => node[n].expires <= node[n].token

(* A provider that does not tell leaves every expiry unknown.              *)
Told == conn.expires # Unknown => tells

CredentialsInv ==
  /\ CredentialsTypeOK /\ ExpiryIsHonest /\ FreshWhenInjected
  /\ StoredLater /\ ReadHonestly /\ Told

Attempts == [pc : {"start", "refresh", "store", "process", "succeeded", "failed"},
             attempt : 0 .. MaxAttempt, now : 0 .. MaxHour, token : Hours,
             refresh : BOOLEAN, expires : Hours \cup {Unknown}]

LEMMA CredentialsInitially == CredentialsInit => CredentialsInv
<1> SUFFICES ASSUME CredentialsInit PROVE CredentialsInv
  OBVIOUS
<1>0. Life \in Hours /\ 0 \in Hours /\ 0 \in 0 .. MaxHour /\ 0 \in 0 .. MaxAttempt
  BY CredentialsAssumption DEF Hours
<1>1. conn \in Conn
  <2>1. Expiry(0) \in Hours \cup {Unknown}
    BY <1>0, CredentialsAssumption DEF Expiry
  <2>2. PICK e \in {Unknown, Expiry(0)}, b \in BOOLEAN :
          conn = [access |-> Life, refresh |-> b, active |-> TRUE, expires |-> e]
    BY Zenon DEF CredentialsInit
  <2> QED BY <1>0, <2>1, <2>2 DEF Conn
<1>2. CredentialsTypeOK
  BY <1>0, <1>1 DEF CredentialsInit, CredentialsTypeOK, FreshAttempt
<1>3. ExpiryIsHonest
  BY CredentialsAssumption DEF CredentialsInit, ExpiryIsHonest, Expiry
<1>5. Told
  BY DEF CredentialsInit, Told, Expiry
<1>4. FreshWhenInjected /\ StoredLater /\ ReadHonestly
  BY DEF CredentialsInit, FreshWhenInjected, StoredLater, ReadHonestly, FreshAttempt
<1> QED BY <1>2, <1>3, <1>4, <1>5 DEF CredentialsInv

(* One attempt is replaced by another and the row stays: what is to be     *)
(* shown concerns the new attempt alone.                                   *)
LEMMA AttemptReplaced ==
  ASSUME CredentialsInv, NEW n \in Nodes, NEW x \in Attempts,
         Attempt(n, x), UNCHANGED <<hour, tells>>, conn' \in Conn, ExpiryIsHonest', Told',
         x.pc = "process" /\ x.refresh /\ x.expires # Unknown => x.token > x.now,
         x.pc = "store" => x.now + Life <= x.token,
         x.pc = "refresh" => /\ x.now <= hour
                             /\ x.expires # Unknown => x.expires <= x.token
  PROVE  CredentialsInv'
<1>1. CredentialsTypeOK'
  BY DEF CredentialsInv, CredentialsTypeOK, Attempt, Attempts
<1>2. \A m \in Nodes : node'[m] = IF m = n THEN x ELSE node[m]
  BY DEF CredentialsInv, CredentialsTypeOK, Attempt
<1>3. FreshWhenInjected' /\ StoredLater' /\ ReadHonestly'
  BY <1>2 DEF CredentialsInv, FreshWhenInjected, StoredLater, ReadHonestly
<1> QED BY <1>1, <1>3 DEF CredentialsInv

LEMMA RestartedAttempt ==
  ASSUME NEW n \in Nodes, CredentialsInv
  PROVE  /\ Failed(n) \in Attempts /\ Failed(n).pc = "failed"
         /\ \A a \in 0 .. MaxAttempt :
              /\ [FreshAttempt EXCEPT !.attempt = a] \in Attempts
              /\ [FreshAttempt EXCEPT !.attempt = a].pc = "start"
         /\ [FreshAttempt EXCEPT !.pc = "succeeded", !.attempt = node[n].attempt] \in Attempts
<1>1. 0 \in Hours /\ 0 \in 0 .. MaxHour /\ 0 \in 0 .. MaxAttempt
  BY CredentialsAssumption DEF Hours
<1>2. node[n].attempt \in 0 .. MaxAttempt
  BY DEF CredentialsInv, CredentialsTypeOK
<1> QED BY <1>1, <1>2 DEF Failed, FreshAttempt, Attempts

LEMMA RaiseKeeps ==
  ASSUME CredentialsInv, NEW n \in Nodes, Raise(n), UNCHANGED <<hour, tells, conn>>
  PROVE  CredentialsInv'
<1>1. conn' \in Conn /\ ExpiryIsHonest' /\ Told'
  BY DEF CredentialsInv, CredentialsTypeOK, ExpiryIsHonest, Told
<1>2. CASE Attempt(n, Failed(n))
  BY <1>1, <1>2, RestartedAttempt, AttemptReplaced
<1>3. CASE /\ node[n].attempt < MaxAttempt
           /\ Attempt(n, [FreshAttempt EXCEPT !.attempt = node[n].attempt + 1])
  <2>1. node[n].attempt + 1 \in 0 .. MaxAttempt
    BY <1>3, CredentialsAssumption DEF CredentialsInv, CredentialsTypeOK
  <2> DEFINE x == [FreshAttempt EXCEPT !.attempt = node[n].attempt + 1]
  <2>2. x \in Attempts /\ x.pc = "start"
    BY <2>1, RestartedAttempt
  <2>3. Attempt(n, x)
    BY <1>3
  <2> HIDE DEF x
  <2> QED BY <1>1, <2>2, <2>3, AttemptReplaced
<1> QED BY <1>2, <1>3 DEF Raise

LEMMA ResolveKeeps ==
  ASSUME CredentialsInv, NEW n \in Nodes, Resolve(n)
  PROVE  CredentialsInv'
<1> DEFINE read == [node[n] EXCEPT !.now = hour, !.token = conn.access,
                                   !.refresh = conn.refresh, !.expires = conn.expires]
<1>1. conn' \in Conn /\ ExpiryIsHonest' /\ Told' /\ UNCHANGED <<hour, tells>>
  BY DEF CredentialsInv, CredentialsTypeOK, ExpiryIsHonest, Told, Resolve
<1>2. CASE Attempt(n, Failed(n))
  BY <1>1, <1>2, RestartedAttempt, AttemptReplaced
<1>3. ASSUME NEW pc \in {"refresh", "process"}, Attempt(n, [read EXCEPT !.pc = pc]),
             pc = "process" => ~NeedsRefresh(hour)
      PROVE  CredentialsInv'
  <2> DEFINE x == [read EXCEPT !.pc = pc]
  <2>0. node[n] \in Attempts /\ hour \in 0 .. MaxHour
    BY DEF CredentialsInv, CredentialsTypeOK, Attempts
  <2>1. /\ x \in Attempts /\ x.pc = pc /\ x.now = hour /\ x.token = conn.access
        /\ x.refresh = conn.refresh /\ x.expires = conn.expires
    BY <2>0 DEF CredentialsInv, CredentialsTypeOK, Attempts, Conn
  <2>2. hour \in Nat /\ conn \in Conn /\ Hours \subseteq Nat /\ Unknown \notin Nat
    BY CredentialsAssumption DEF CredentialsInv, CredentialsTypeOK, Hours
  <2>3. conn.expires # Unknown => conn.expires <= conn.access
    BY DEF CredentialsInv, ExpiryIsHonest
  <2>4. pc = "process" /\ conn.refresh /\ conn.expires # Unknown => conn.access > hour
    BY <1>3, <2>2, <2>3, CredentialsAssumption DEF NeedsRefresh, Conn
  <2>5. Attempt(n, x)
    BY <1>3
  <2> HIDE DEF x
  <2>6. hour <= hour
    BY <2>2
  <2> QED BY <1>1, <2>1, <2>3, <2>4, <2>5, <2>6, AttemptReplaced
<1> QED BY <1>2, <1>3 DEF Resolve

LEMMA RefreshKeeps ==
  ASSUME CredentialsInv, NEW n \in Nodes, RefreshAccessToken(n)
  PROVE  CredentialsInv'
<1>0. /\ node[n] \in Attempts /\ hour \in 0 .. MaxHour /\ node[n].pc = "refresh"
      /\ node[n].now <= hour
      /\ node[n].expires # Unknown => node[n].expires <= node[n].token
  BY DEF CredentialsInv, CredentialsTypeOK, Attempts, RefreshAccessToken, ReadHonestly
<1>1. conn' \in Conn /\ ExpiryIsHonest' /\ Told' /\ UNCHANGED <<hour, tells>>
  BY DEF CredentialsInv, CredentialsTypeOK, ExpiryIsHonest, Told, RefreshAccessToken
<1>2. CASE Attempt(n, Failed(n))
  BY <1>1, <1>2, RestartedAttempt, AttemptReplaced
<1>3. CASE Attempt(n, [node[n] EXCEPT !.pc = "store", !.token = hour + Life])
  <2> DEFINE x == [node[n] EXCEPT !.pc = "store", !.token = hour + Life]
  <2>1. hour + Life \in Hours
    BY <1>0, CredentialsAssumption DEF Hours
  <2>2. x \in Attempts /\ x.pc = "store" /\ x.token = hour + Life /\ x.now = node[n].now
    BY <1>0, <2>1 DEF Attempts
  <2>3. node[n].now + Life <= hour + Life
    BY <1>0, CredentialsAssumption DEF Attempts
  <2>4. Attempt(n, x)
    BY <1>3
  <2> HIDE DEF x
  <2> QED BY <1>1, <2>2, <2>3, <2>4, AttemptReplaced
<1>4. CASE /\ ~(node[n].expires # Unknown /\ node[n].expires <= node[n].now)
           /\ Attempt(n, [node[n] EXCEPT !.pc = "process"])
  <2> DEFINE x == [node[n] EXCEPT !.pc = "process"]
  <2>1. /\ x \in Attempts /\ x.pc = "process" /\ x.token = node[n].token
        /\ x.now = node[n].now /\ x.expires = node[n].expires
    BY <1>0 DEF Attempts
  <2>2. node[n].expires # Unknown => node[n].token > node[n].now
    BY <1>0, <1>4, CredentialsAssumption DEF Attempts, Hours
  <2>3. Attempt(n, x)
    BY <1>4
  <2> HIDE DEF x
  <2> QED BY <1>1, <2>1, <2>2, <2>3, AttemptReplaced
<1> QED BY <1>2, <1>3, <1>4 DEF RefreshAccessToken

LEMMA StoreKeeps ==
  ASSUME CredentialsInv, NEW n \in Nodes, StoreTokens(n)
  PROVE  CredentialsInv'
<1>0. /\ node[n] \in Attempts /\ conn \in Conn /\ hour \in 0 .. MaxHour
      /\ node[n].now + Life <= node[n].token /\ UNCHANGED <<hour, tells>>
  BY DEF CredentialsInv, CredentialsTypeOK, Attempts, StoreTokens, StoredLater
<1>1. CASE Raise(n) /\ UNCHANGED conn
  BY <1>0, <1>1, RaiseKeeps
<1>2. CASE /\ conn' = [conn EXCEPT !.access = node[n].token,
                                   !.expires = IF tells THEN node[n].now + Life ELSE @]
           /\ Attempt(n, [node[n] EXCEPT !.pc = "process"])
  <2> DEFINE x == [node[n] EXCEPT !.pc = "process"]
  <2>1. node[n].now + Life \in Hours /\ node[n].token \in Nat /\ node[n].now \in Nat
    BY <1>0, CredentialsAssumption DEF Attempts, Hours
  <2> DEFINE e == IF tells THEN node[n].now + Life ELSE conn.expires
  <2>2. conn' = [conn EXCEPT !.access = node[n].token, !.expires = e]
    BY <1>2, Zenon
  <2>3. e \in Hours \cup {Unknown} /\ (e # Unknown => tells /\ e = node[n].now + Life)
    BY <1>0, <2>1 DEF CredentialsInv, Told, Conn
  <2>4. conn' \in Conn /\ conn'.access = node[n].token /\ conn'.expires = e
    <3> HIDE DEF e
    <3> QED BY <1>0, <2>2, <2>3 DEF Conn, Attempts
  <2>5. ExpiryIsHonest' /\ Told'
    BY <1>0, <2>3, <2>4 DEF ExpiryIsHonest, Told
  <2>6. /\ x \in Attempts /\ x.pc = "process" /\ x.token = node[n].token
        /\ x.now = node[n].now
    BY <1>0 DEF Attempts
  <2>7. node[n].token > node[n].now
    BY <1>0, <2>1, CredentialsAssumption
  <2>8. Attempt(n, x)
    BY <1>2
  <2> HIDE DEF x, e
  <2> QED BY <1>0, <2>4, <2>5, <2>6, <2>7, <2>8, AttemptReplaced
<1> QED BY <1>1, <1>2 DEF StoreTokens

LEMMA ProcessKeeps ==
  ASSUME CredentialsInv, NEW n \in Nodes, Process(n)
  PROVE  CredentialsInv'
<1> DEFINE x == [FreshAttempt EXCEPT !.pc = "succeeded", !.attempt = node[n].attempt]
<1>1. conn' \in Conn /\ ExpiryIsHonest' /\ Told' /\ UNCHANGED <<hour, tells, conn>>
  BY DEF CredentialsInv, CredentialsTypeOK, ExpiryIsHonest, Told, Process
<1>2. CASE Attempt(n, x)
  <2>1. x \in Attempts /\ x.pc = "succeeded"
    BY RestartedAttempt DEF FreshAttempt
  <2> HIDE DEF x
  <2> QED BY <1>1, <1>2, <2>1, AttemptReplaced
<1>3. CASE Raise(n)
  BY <1>1, <1>3, RaiseKeeps
<1> QED BY <1>2, <1>3 DEF Process

(* The steps that change the row or the clock leave the attempts alone.    *)
LEMMA OthersKeep ==
  ASSUME CredentialsInv, Reconnect \/ Revoke \/ HourPasses \/ UNCHANGED credentialVars
  PROVE  CredentialsInv'
<1>0. conn \in Conn /\ hour \in 0 .. MaxHour /\ tells \in BOOLEAN
  BY DEF CredentialsInv, CredentialsTypeOK
<1>1. conn' \in Conn /\ ExpiryIsHonest' /\ Told' /\ UNCHANGED <<tells, node>>
  <2>1. CASE Reconnect
    <3>1. hour + Life \in Hours /\ hour + Life \in Nat
      BY <1>0, CredentialsAssumption DEF Hours
    <3>2. Expiry(hour) \in {hour + Life, Unknown} /\ (Expiry(hour) # Unknown => tells)
      BY DEF Expiry
    <3>3. PICK b \in BOOLEAN :
            conn' = [conn EXCEPT !.access = hour + Life, !.expires = Expiry(hour), !.refresh = b]
      BY <1>0, <2>1 DEF Reconnect, Conn
    <3>4. conn' \in Conn /\ conn'.access = hour + Life /\ conn'.expires = Expiry(hour)
      BY <1>0, <3>1, <3>2, <3>3 DEF Conn
    <3> QED BY <2>1, <3>1, <3>2, <3>4 DEF Reconnect, ExpiryIsHonest, Told
  <2>2. CASE Revoke
    BY <1>0, <2>2 DEF Revoke, Conn, CredentialsInv, ExpiryIsHonest, Told
  <2>3. CASE HourPasses \/ UNCHANGED credentialVars
    BY <1>0, <2>3 DEF HourPasses, credentialVars, CredentialsInv, ExpiryIsHonest, Told
  <2> QED BY <2>1, <2>2, <2>3
<1>2. hour' \in 0 .. MaxHour /\ hour <= hour'
  BY <1>0, CredentialsAssumption DEF Reconnect, Revoke, HourPasses, credentialVars
<1>3. CredentialsTypeOK'
  BY <1>1, <1>2 DEF CredentialsInv, CredentialsTypeOK
<1>4. ReadHonestly'
  BY <1>0, <1>1, <1>2, CredentialsAssumption
     DEF CredentialsInv, CredentialsTypeOK, ReadHonestly
<1>5. FreshWhenInjected' /\ StoredLater'
  BY <1>1 DEF CredentialsInv, FreshWhenInjected, StoredLater
<1> QED BY <1>1, <1>3, <1>4, <1>5 DEF CredentialsInv

LEMMA CredentialsInductive == CredentialsInv /\ [CredentialsNext]_credentialVars => CredentialsInv'
<1> SUFFICES ASSUME CredentialsInv, [CredentialsNext]_credentialVars PROVE CredentialsInv'
  OBVIOUS
<1>1. ASSUME NEW n \in Nodes,
             Resolve(n) \/ RefreshAccessToken(n) \/ StoreTokens(n) \/ Process(n)
      PROVE  CredentialsInv'
  BY <1>1, ResolveKeeps, RefreshKeeps, StoreKeeps, ProcessKeeps
<1> QED BY <1>1, OthersKeep DEF CredentialsNext

(* The invariant of the connection, its row and the attempts in flight.    *)
THEOREM CredentialsInvariant == CredentialsSpec => []CredentialsInv
BY CredentialsInitially, CredentialsInductive, PTL DEF CredentialsSpec

(* The row never claims that its token lives longer than it does: every    *)
(* UPDATE writes a token with an expiry counted from before it was asked.  *)
THEOREM CredentialsHonest == CredentialsSpec => []ExpiryIsHonest
<1>1. CredentialsInv => ExpiryIsHonest
  BY DEF CredentialsInv
<1> QED BY <1>1, CredentialsInvariant, PTL

(* No node that could have refreshed is given a token known to be expired. *)
THEOREM CredentialsFresh == CredentialsSpec => []FreshWhenInjected
<1>1. CredentialsInv => FreshWhenInjected
  BY DEF CredentialsInv
<1> QED BY <1>1, CredentialsInvariant, PTL

-----------------------------------------------------------------------------
(* The stores together.  A step of the composition is a step of the store  *)
(* in focus, and a stutter of the three others.                            *)

LEMMA StoresStepsAreTheirs ==
  ASSUME [StoresNext]_storesVars
  PROVE  /\ [SkillsNext]_skillVars /\ [DocumentsNext]_docVars
         /\ [MemoryNext]_memoryVars /\ [CredentialsNext]_credentialVars
<1>1. CASE StoresNext
  BY <1>1 DEF StoresNext
<1>2. CASE UNCHANGED storesVars
  BY <1>2 DEF storesVars
<1> QED BY <1>1, <1>2

(* The stores beside the engine and the agents do not touch each other:    *)
(* together, each behaves as its own specification says, so that whatever  *)
(* is proved of one of them alone holds beside the others.                 *)
THEOREM StoresAreIndependent ==
  StoresSpec => SkillsSpec /\ DocumentsSpec /\ MemorySpec /\ CredentialsSpec
<1>1. StoresInit => SkillsInit /\ DocumentsInit /\ MemoryInit /\ CredentialsInit
  BY DEF StoresInit
<1> QED BY <1>1, StoresStepsAreTheirs, PTL
        DEF StoresSpec, SkillsSpec, DocumentsSpec, MemorySpec, CredentialsSpec

LEMMA BoxesTyped ==
  BoxStates \subseteq
       [pc : {"idle", "reload", "read", "claim", "file", "load", "generation", "index"},
        now : 0 .. MaxTime, gen : Nat, file : Files \cup {0}, refs : SUBSET Files,
        cache : (SUBSET Files) \cup {NoCache}, listed : SUBSET Files]
BY DEF BoxStates

(* The variables of all four stores keep their types.                      *)
THEOREM StoresTypeCorrect == StoresSpec => []StoresTypeOK
<1>1. SkillsInv => SkillsTypeOK
  BY DEF SkillsInv, SkillsTypeOK, RequestStates
<1>2. DocumentsInv => DocumentsTypeOK
  BY DEF DocumentsInv
<1>3. MemoryInv => MemoryTypeOK
  BY BoxesTyped DEF MemoryInv, MemoryTypeOK, ObjectsOK
<1>4. CredentialsInv => CredentialsTypeOK
  BY DEF CredentialsInv
<1>5. MemorySpec => []MemoryInv
  BY MemoryInitially, MemoryInductive, PTL DEF MemorySpec
<1>6. SkillsTypeOK /\ DocumentsTypeOK /\ MemoryTypeOK /\ CredentialsTypeOK => StoresTypeOK
  BY DEF StoresTypeOK
<1> QED BY <1>1, <1>2, <1>3, <1>4, <1>5, <1>6, StoresAreIndependent, SkillsInvariant,
           DocumentsInvariant, CredentialsInvariant, PTL

(* Beside the other stores each one keeps its promises: what the skills    *)
(* marketplace marks, stores and publishes, what a document's row shows,   *)
(* what the memory's index names, and what a connection says of its token. *)
THEOREM StoresKeepTheirPromises ==
  /\ StoresSpec => [](MarkFollowsCopy /\ PathHasDocument /\ PublishedWasApproved)
  /\ StoresSpec => []RunningIsWatched /\ ResultsKept
  /\ StoresSpec => []IndexNamesStoredFiles /\ OneClaimPerWindow /\ OwnEntriesKept
  /\ StoresSpec => [](ExpiryIsHonest /\ FreshWhenInjected)
BY StoresAreIndependent, MarkAlwaysFollowsCopy, PathAlwaysHasDocument,
   PublishedAlwaysApproved, RunningAlwaysWatched, ResultsAlwaysKept, MemoryIndex,
   MemoryDebounce, MemoryOwnEntries, CredentialsHonest, CredentialsFresh, PTL
=============================================================================
