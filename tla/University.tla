----------------------------- MODULE University -----------------------------
(***************************************************************************)
(* The university's tables and what their writers tell the authorization   *)
(* graph: the sync service with its HTTP endpoints and its puller, the     *)
(* import of students and teachers, the administration of positions and    *)
(* reference data, the deans' pages, and the resolver of audiences.        *)
(*                                                                         *)
(* Every writer is one transaction (a deans' update is two steps) that     *)
(* changes tables and enqueues relationship updates.  graph is what        *)
(* SpiceDB holds once the outbox has applied them in order; how it gets    *)
(* there is module AuthzOutbox.  A transaction that fails changes nothing  *)
(* and is not a step.  Endpoints and pullers of several replicas run in    *)
(* any order, so the phases of one pull do not order the steps.            *)
(*                                                                         *)
(* Rows are records; ids are handed out by one counter.  Names, contacts,  *)
(* titles and the other attributes of rows are left out, and so is         *)
(* program_id of a position, which is handled like its stream_id.          *)
(***************************************************************************)
EXTENDS Naturals, FiniteSets

CONSTANTS
  Students,   \* external ids of persons
  Codes,      \* codes of hierarchy nodes, courses and semesters; "" is no code
  Kinds,      \* types of appointments, of those appointmentRelation knows
  MaxWrites   \* bound: transactions that change something

Anonymous == "anonymous"  \* the person created without an external id
Persons   == Students \cup {Anonymous}

(* Levels of the hierarchy: every table refers to the one before it.       *)
Faculty == 1
Department == 2
Program == 3
Stream == 4
Group == 5
Subgroup == 6
Levels == Faculty..Subgroup
NationalityCategory == 7

AppointmentRelation == [dean |-> "dean", dept_head |-> "head", program_director |-> "director",
                        stream_curator |-> "curator", group_curator |-> "curator",
                        foreign_student_curator |-> "curator"]

ASSUME UniversityAssumption ==
  /\ MaxWrites \in Nat /\ Students # {}
  /\ "" \notin Codes /\ "a" \in Codes
  /\ Kinds \subseteq DOMAIN AppointmentRelation

VARIABLES
  uni,      \* the tables and the graph
  dean,     \* the student position a dean's request has checked, and its faculty
  drift,    \* history: keys of the graph that the last writers left to others
  writes

universityVars == <<uni, dean, drift, writes>>

-----------------------------------------------------------------------------
(* Rows *)

NodeAt(d, l, c) == {n \in d.nodes : n.level = l /\ n.code = c}
NodesOf(d, l)   == {n \in d.nodes : n.level = l}
Ids(rows)       == {r.id : r \in rows}
IdOf(rows)      == IF rows = {} THEN 0 ELSE (CHOOSE r \in rows : TRUE).id  \* 0: NULL
CodeOf(d, id)   == (CHOOSE n \in d.nodes : n.id = id).code
Children(d, n)  == {m \in d.nodes : m.up = n.id /\ m.level = n.level + 1}

\* What the positions of a person make them a member of.
Active(d, p)  == {s \in d.positions : s.person = p /\ s.active}
Members(d, p) ==
  {<<"member", Group, CodeOf(d, s.group), p>> : s \in {t \in Active(d, p) : t.group # 0}}
    \cup {<<"member", Subgroup, CodeOf(d, i), p>> : i \in UNION {s.subs : s \in Active(d, p)}}

Staff(d, c) ==
  {<<"staff", Department, c, t.person>> :
     t \in {x \in d.posts : x.active /\ x.dept \in Ids(NodeAt(d, Department, c)) /\ x.person # Anonymous}}

\* Keys of the graph.
Member(p)    == <<"member", p>>
Parent(l, c) == <<"parent", l, c>>
StaffOf(c)   == <<"staff", c>>

OfMember(d, p)      == {t \in d.graph : t[1] = "member" /\ t[4] = p}
OfObject(d, r, l, c) == {t \in d.graph : t[1] = r /\ t[2] = l /\ t[3] = c}

Touch(d, tuples)          == [d EXCEPT !.graph = @ \cup tuples]
DeleteBySubject(d, p)     == [d EXCEPT !.graph = @ \ OfMember(d, p)]
ReplaceFor(d, r, l, c, T) == [d EXCEPT !.graph = (@ \ OfObject(d, r, l, c)) \cup T]

(* The seed of migration 000013 in small, with the relationships of a      *)
(* first synchronization: a chain of nodes, two groups, one student in a   *)
(* subgroup, or nobody.                                                    *)
SeedNodes == {[id |-> l, level |-> l, code |-> "a", up |-> l - 1] : l \in Levels}
               \cup {[id |-> 7, level |-> Group, code |-> "b", up |-> Stream]}
Seed(people) ==
  LET d == [nodes |-> SeedNodes, next |-> 9,
            persons |-> people, linked |-> people,
            positions |-> {[id |-> 8, person |-> p, stream |-> Stream, group |-> Group,
                            active |-> TRUE, subs |-> {Subgroup}] : p \in people},
            posts |-> {}, appointments |-> {},
            catalog |-> {[id |-> 1, kind |-> "course", code |-> "a"],
                         [id |-> 2, kind |-> "semester", code |-> "a"]},
            teaching |-> {},
            graph |-> {<<"parent", n.level, n.code, "a">> : n \in SeedNodes \ NodeAt([nodes |-> SeedNodes], Faculty, "a")}]
  IN Touch(d, UNION {Members(d, p) : p \in people})

UniversityInit ==
  /\ uni \in {Seed({}), Seed({CHOOSE p \in Students : TRUE})}
  /\ dean = [pos |-> 0, faculty |-> 0]
  /\ drift = {} /\ writes = 0

\* inTx, withStudentPositionTx: all of a transaction or nothing.
Save(d) ==
  /\ uni' = d
  /\ writes' = IF d = uni THEN writes ELSE writes + 1
Keeps == UNCHANGED <<dean, drift>>

-----------------------------------------------------------------------------
(* Synchronization: persons, reference data, hierarchy *)

\* syncPersonTx: upsert, and auto-link when a user with this TSU id exists.
UpsertPerson(d, p, registered) ==
  [d EXCEPT !.persons = @ \cup {p}, !.linked = IF registered THEN @ \cup {p} ELSE @]
SyncPerson(p, registered) == Save(UpsertPerson(uni, p, registered)) /\ Keeps

UpsertRef(d, k, c) ==
  IF \E r \in d.catalog : r.kind = k /\ r.code = c THEN d
  ELSE [d EXCEPT !.catalog = @ \cup {[id |-> d.next, kind |-> k, code |-> c]}, !.next = @ + 1]
SyncCourse(c)   == Save(UpsertRef(uni, "course", c)) /\ Keeps
SyncSemester(c) == Save(UpsertRef(uni, "semester", c)) /\ Keeps

UpsertNode(d, l, c, up) ==
  IF NodeAt(d, l, c) = {}
  THEN [d EXCEPT !.nodes = @ \cup {[id |-> d.next, level |-> l, code |-> c, up |-> up]}, !.next = @ + 1]
  ELSE [d EXCEPT !.nodes = {IF n \in NodeAt(d, l, c) THEN [n EXCEPT !.up = up] ELSE n : n \in @}]

SyncFaculty(c) == Save(UpsertNode(uni, Faculty, c, 0)) /\ Keeps

(* The upsert names parent, code and name only, as no level allows extra   *)
(* columns; programs.degree_level and subgroups.subgroup_type are NOT NULL *)
(* without a default, so at those two levels it always fails.              *)
Upsertable(l) == l \in {Department, Stream, Group}

SyncHierarchyNode(l, c, pc) ==
  /\ Upsertable(l) /\ NodeAt(uni, l - 1, pc) # {}
  /\ Save(ReplaceFor(UpsertNode(uni, l, c, IdOf(NodeAt(uni, l - 1, pc))), "parent", l, c, {<<"parent", l, c, pc>>}))
  /\ drift' = drift \ {Parent(l, c)}
  /\ UNCHANGED dean

-----------------------------------------------------------------------------
(* Synchronization and import: positions *)

(* syncStudentPositionTx: one position per person and group (none when no  *)
(* group is given: NULL never matches); every membership of the person is  *)
(* deleted, and only this group written back.                              *)
GroupTuple(p, gc, act) == IF act /\ gc # "" THEN {<<"member", Group, gc, p>>} ELSE {}
SyncedPosition(d, p, sc, gc, act) ==
  LET s == IF sc = "" THEN 0 ELSE IdOf(NodeAt(d, Stream, sc))
      g == IF gc = "" THEN 0 ELSE IdOf(NodeAt(d, Group, gc))
      old == {x \in d.positions : x.person = p /\ x.group = g /\ g # 0}
      stored == IF old # {}
                THEN [d EXCEPT !.positions = {IF x \in old THEN [x EXCEPT !.stream = s, !.active = act] ELSE x : x \in @}]
                ELSE [d EXCEPT !.positions = @ \cup {[id |-> d.next, person |-> p, stream |-> s, group |-> g,
                                                      active |-> act, subs |-> {}]}, !.next = @ + 1]
  IN Touch(DeleteBySubject(stored, p), GroupTuple(p, gc, act))

Found(d, p, sc, gc) ==
  /\ p \in d.persons
  /\ sc = "" \/ NodeAt(d, Stream, sc) # {}
  /\ gc = "" \/ NodeAt(d, Group, gc) # {}

\* Whether what the writer gives p is all that the positions give them.
Narrowed(p, written) ==
  drift' = IF Members(uni', p) = written THEN drift \ {Member(p)} ELSE drift \cup {Member(p)}

SyncStudentPosition(p, sc, gc, act) ==
  /\ Found(uni, p, sc, gc)
  /\ Save(SyncedPosition(uni, p, sc, gc, act))
  /\ Narrowed(p, GroupTuple(p, gc, act))
  /\ UNCHANGED dean

\* syncStudentSubgroupTx: the subgroup goes to one of the active positions (LIMIT 1).
AddSubgroup(d, p, c, s) ==
  Touch([d EXCEPT !.positions = {IF x = s THEN [x EXCEPT !.subs = @ \cup {IdOf(NodeAt(d, Subgroup, c))}] ELSE x : x \in @}],
        {<<"member", Subgroup, c, p>>})

SyncStudentSubgroup(p, c) ==
  /\ NodeAt(uni, Subgroup, c) # {}
  /\ \E s \in Active(uni, p) : Save(AddSubgroup(uni, p, c, s))
  /\ Keeps

(* ImportStudent: person, position and subgroups in one transaction.  A    *)
(* subgroup that is unknown, or for which there is no active position, is  *)
(* a warning.  A group is required.                                        *)
ImportStudent(p, registered, sc, gc, act, c) ==
  LET d1 == UpsertPerson(uni, p, registered)
      d2 == SyncedPosition(d1, p, sc, gc, act)
  IN /\ Found(d1, p, sc, gc)
     /\ IF NodeAt(d2, Subgroup, c) = {} \/ Active(d2, p) = {}
        THEN Save(d2) /\ Narrowed(p, GroupTuple(p, gc, act))
        ELSE /\ \E s \in Active(d2, p) : Save(AddSubgroup(d2, p, c, s))
             /\ Narrowed(p, GroupTuple(p, gc, act) \cup {<<"member", Subgroup, c, p>>})
     /\ UNCHANGED dean

\* A row of the file or the form: the external id and the group are required.
ValidateStudentRow(p, gc) == p # Anonymous /\ gc # ""
HandleImportStudents(p, registered, sc, gc, act, c) ==
  ValidateStudentRow(p, gc) /\ ImportStudent(p, registered, sc, gc, act, c)
HandleCreateStudentManual(p, registered, gc, c) ==
  ValidateStudentRow(p, gc) /\ ImportStudent(p, registered, "", gc, TRUE, c)

-----------------------------------------------------------------------------
(* Teachers: triggers refresh the staff of the departments concerned *)

RefreshDepartments(d, depts) ==
  LET codes == {CodeOf(d, i) : i \in depts \cap Ids(NodesOf(d, Department))}
  IN [d EXCEPT !.graph = (@ \ UNION {OfObject(d, "staff", Department, c) : c \in codes})
                            \cup UNION {Staff(d, c) : c \in codes}]
Refreshed(depts) ==
  drift' = drift \ {StaffOf(CodeOf(uni', i)) : i \in depts \cap Ids(NodesOf(uni', Department))}

SavePost(old, new) ==
  LET depts == {t.dept : t \in old \cup new}
  IN /\ Save(RefreshDepartments([uni EXCEPT !.posts = (@ \ old) \cup new,
                                            !.next = IF old = {} THEN @ + 1 ELSE @], depts))
     /\ Refreshed(depts) /\ UNCHANGED dean

NewPost(p, dept, act) == [id |-> uni.next, person |-> p, dept |-> dept, active |-> act]

\* An unknown department is stored as NULL, an unknown person refused.
SyncTeacherPosition(p, c) ==
  p \in uni.persons /\ SavePost({}, {NewPost(p, IdOf(NodeAt(uni, Department, c)), TRUE)})

\* createTeacher: an existing person is kept; a position they have is refused.
CreateTeacher(p, registered, dept, act) ==
  LET d == UpsertPerson(uni, p, registered)
  IN /\ dept \in Ids(NodesOf(uni, Department))
     /\ ~\E t \in uni.posts : t.person = p /\ t.dept = dept
     /\ Save(RefreshDepartments([d EXCEPT !.posts = @ \cup {NewPost(p, dept, act)}, !.next = @ + 1], {dept}))
     /\ Refreshed({dept}) /\ UNCHANGED dean
HandleCreateTeacherManual(p, registered, dept, act) == p # Anonymous /\ CreateTeacher(p, registered, dept, act)

-----------------------------------------------------------------------------
(* Assignments and appointments: inserted on every synchronization; the    *)
(* relationship names the code as given, whether or not it was found.      *)

RefAt(k, c) == {r \in uni.catalog : r.kind = k /\ r.code = c}

SyncTeachingAssignment(p, c, sem, gc) ==
  /\ RefAt("course", c) # {} /\ RefAt("semester", sem) # {}
  /\ \E t \in uni.posts :
       /\ t.person = p
       /\ Save(Touch([uni EXCEPT !.teaching = @ \cup {[post |-> t.id, course |-> IdOf(RefAt("course", c)),
                                                       semester |-> IdOf(RefAt("semester", sem)),
                                                       group |-> IdOf(NodeAt(uni, Group, gc))]}],
                     {<<"teacher", Group, gc, p>>}))
  /\ Keeps

\* relation, object type (level 0 is the university, whose object is "main"), object
AppointmentTuple(p, k, l, c) ==
  IF k = "foreign_student_curator" THEN <<"curator", NationalityCategory, "foreign", p>>
  ELSE <<AppointmentRelation[k], l, IF l = 0 THEN "main" ELSE c, p>>
NewAppointment(p, k, l, scope) ==
  [id |-> uni.next, person |-> p, kind |-> k, level |-> l, scope |-> scope, active |-> TRUE]

SyncAdminAppointment(p, k, l, c) ==
  /\ p \in uni.persons
  /\ Save(Touch([uni EXCEPT !.appointments = @ \cup {NewAppointment(p, k, l, IF l = 0 THEN 0 ELSE IdOf(NodeAt(uni, l, c)))},
                            !.next = @ + 1],
                {AppointmentTuple(p, k, l, c)}))
  /\ Keeps

-----------------------------------------------------------------------------
(* The batches of the sync endpoints, item by item; a pull does the same. *)

HandleSyncPersons(p, registered)            == SyncPerson(p, registered)
HandleSyncCourses(c)                        == SyncCourse(c)
HandleSyncSemesters(c)                      == SyncSemester(c)
HandleSyncFaculties(c)                      == SyncFaculty(c)
HandleHierarchyNodes(l, c, pc)              == SyncHierarchyNode(l, c, pc)
HandleSyncTeacherPositions(p, c)            == SyncTeacherPosition(p, c)
HandleSyncStudentPositions(p, sc, gc, act)  == SyncStudentPosition(p, sc, gc, act)
HandleSyncStudentSubgroups(p, c)            == SyncStudentSubgroup(p, c)
HandleSyncTeachingAssignments(p, c, sem, gc) == SyncTeachingAssignment(p, c, sem, gc)
HandleSyncAdminAppointments(p, k, l, c)     == SyncAdminAppointment(p, k, l, c)

SyncItem ==
  \/ \E c \in Codes : \/ HandleSyncCourses(c) \/ HandleSyncSemesters(c) \/ HandleSyncFaculties(c)
                      \/ \E l \in Department..Subgroup, pc \in Codes : HandleHierarchyNodes(l, c, pc)
  \/ \E p \in Students :
       \/ \E registered \in BOOLEAN : HandleSyncPersons(p, registered)
       \/ \E sc, gc \in Codes \cup {""}, act \in BOOLEAN : HandleSyncStudentPositions(p, sc, gc, act)
       \/ \E c \in Codes : \/ HandleSyncTeacherPositions(p, c) \/ HandleSyncStudentSubgroups(p, c)
                           \/ \E gc, sem \in Codes : HandleSyncTeachingAssignments(p, c, sem, gc)
                           \/ \E k \in Kinds, l \in 0..Group : HandleSyncAdminAppointments(p, k, l, c)
RunBatchSync == SyncItem

-----------------------------------------------------------------------------
(* Reference data in the administration: tables only, no relationships *)

CreateEntity(l, c, up) ==
  /\ NodeAt(uni, l, c) = {}
  /\ IF l = Faculty THEN up = 0 ELSE up \in Ids(NodesOf(uni, l - 1))
  /\ Save(UpsertNode(uni, l, c, up))
  /\ drift' = drift \cup {Parent(l, c)}
  /\ UNCHANGED dean

\* Persons whose memberships name node n, and the keys that name its code.
Touching(n) == {Member(s.person) : s \in {x \in uni.positions : x.group = n.id \/ n.id \in x.subs}}
Naming(n)   == {Parent(n.level, n.code), StaffOf(n.code)} \cup {Parent(m.level, m.code) : m \in Children(uni, n)}

UpdateEntity(n, c, up) ==
  /\ n.code = c \/ NodeAt(uni, n.level, c) = {}
  /\ IF n.level = Faculty THEN up = 0 ELSE up \in Ids(NodesOf(uni, n.level - 1))
  /\ <<n.code, n.up>> # <<c, up>>
  /\ Save([uni EXCEPT !.nodes = (@ \ {n}) \cup {[n EXCEPT !.code = c, !.up = up]}])
  /\ drift' = drift \cup Naming(n) \cup {Parent(n.level, c), StaffOf(c)}
                    \cup IF n.code = c THEN {} ELSE Touching(n)
  /\ UNCHANGED dean

(* ON DELETE RESTRICT above groups, CASCADE from a group to its subgroups; *)
(* SET NULL in positions.  The trigger of a position whose department is   *)
(* gone finds no code to refresh.                                          *)
DeleteEntity(n) ==
  LET gone == {n} \cup Children(uni, n)
  IN /\ n.level >= Group \/ Children(uni, n) = {}
     /\ Save([uni EXCEPT !.nodes = @ \ gone,
                         !.positions = {[s EXCEPT !.stream = IF @ = n.id THEN 0 ELSE @,
                                                  !.group = IF @ = n.id THEN 0 ELSE @,
                                                  !.subs = @ \ Ids(gone)] : s \in @},
                         !.posts = {[t EXCEPT !.dept = IF @ = n.id THEN 0 ELSE @] : t \in @},
                         !.teaching = {[t EXCEPT !.group = IF @ = n.id THEN 0 ELSE @] : t \in @}])
     /\ drift' = drift \cup UNION {Naming(m) \cup Touching(m) : m \in gone}
     /\ UNCHANGED dean

CreateRef(k, c) == /\ RefAt(k, c) = {}
                   /\ Save(UpsertRef(uni, k, c)) /\ Keeps
UpdateRef(r, c) == /\ RefAt(r.kind, c) = {}
                   /\ Save([uni EXCEPT !.catalog = (@ \ {r}) \cup {[r EXCEPT !.code = c]}]) /\ Keeps
\* preDeleteCascades: the assignments of the course or semester go first.
DeleteRef(r) ==
  /\ Save([uni EXCEPT !.catalog = @ \ {r}, !.teaching = {t \in @ : t[r.kind] # r.id}])
  /\ Keeps

EntityAt(l) ==
  \/ \E c \in Codes, up \in Ids(NodesOf(uni, l - 1)) \cup {0} :
       CreateEntity(l, c, up) \/ \E n \in NodesOf(uni, l) : UpdateEntity(n, c, up)
  \/ \E n \in NodesOf(uni, l) : DeleteEntity(n)
RefOf(k) ==
  \/ \E c \in Codes : CreateRef(k, c) \/ \E r \in uni.catalog : r.kind = k /\ UpdateRef(r, c)
  \/ \E r \in uni.catalog : r.kind = k /\ DeleteRef(r)

HandleFaculty    == EntityAt(Faculty)
HandleDepartment == EntityAt(Department)
HandleProgram    == EntityAt(Program)
HandleStream     == EntityAt(Stream)
HandleGroup      == EntityAt(Group)
HandleSubgroup   == EntityAt(Subgroup)
HandleCourse     == RefOf("course")
HandleSemester   == RefOf("semester")

-----------------------------------------------------------------------------
(* Positions in the administration *)

CreatePersonForUser(p) == /\ p \notin uni.persons /\ Save(UpsertPerson(uni, p, TRUE)) /\ Keeps
LinkPersonToUser(p)    == /\ p \in uni.persons \ uni.linked /\ Save(UpsertPerson(uni, p, TRUE)) /\ Keeps
RequirePerson(p)       == p \in uni.linked

\* Mutant: subgroups are forgotten.
SyncStudentMemberTupleGroups(d, p) ==
  IF p = Anonymous THEN d
  ELSE Touch(DeleteBySubject(d, p), {t \in Members(d, p) : t[2] = Group})

\* Rewrites all memberships from the positions; nothing without an external id.
SyncStudentMemberTuple(d, p) ==
  IF p = Anonymous THEN d ELSE Touch(DeleteBySubject(d, p), Members(d, p))

StorePositions(p, positions, next) ==
  /\ Save(SyncStudentMemberTuple([uni EXCEPT !.positions = positions, !.next = next], p))
  /\ drift' = drift \ {Member(p)}
  /\ UNCHANGED dean

ValidateStudentPositionRequest(g, subs) == g \in Ids(NodesOf(uni, Group)) /\ subs \subseteq Ids(NodesOf(uni, Subgroup))

CreateStudentPosition(p, g, act, subs) ==
  StorePositions(p, uni.positions \cup {[id |-> uni.next, person |-> p, stream |-> 0, group |-> g,
                                         active |-> act, subs |-> subs]}, uni.next + 1)
UpdateStudentPosition(s, g, act, subs) ==
  StorePositions(s.person, (uni.positions \ {s}) \cup {[s EXCEPT !.group = g, !.active = act, !.subs = subs]}, uni.next)
DeleteStudentPosition(s) == StorePositions(s.person, uni.positions \ {s}, uni.next)

HandleCreateStudentPosition(p, g, act, subs) ==
  RequirePerson(p) /\ ValidateStudentPositionRequest(g, subs) /\ CreateStudentPosition(p, g, act, subs)
HandleUpdateStudentPosition(s, g, act, subs) ==
  ValidateStudentPositionRequest(g, subs) /\ UpdateStudentPosition(s, g, act, subs)
HandleDeleteStudentPosition(s) == DeleteStudentPosition(s)

ValidateTeacherPositionRequest(dept) == dept \in Ids(NodesOf(uni, Department))
CreateTeacherPosition(p, dept, act) == SavePost({}, {NewPost(p, dept, act)})
UpdateTeacherPosition(t, dept, act) == SavePost({t}, {[t EXCEPT !.dept = dept, !.active = act]})
DeleteTeacherPosition(t)            == SavePost({t}, {})

HandleCreateTeacherPosition(p, dept, act) ==
  RequirePerson(p) /\ ValidateTeacherPositionRequest(dept) /\ CreateTeacherPosition(p, dept, act)
HandleUpdateTeacherPosition(t, dept, act) ==
  ValidateTeacherPositionRequest(dept) /\ UpdateTeacherPosition(t, dept, act)
HandleDeleteTeacherPosition(t) == DeleteTeacherPosition(t)

\* By person id: the position must be one of the person's.
GetAllPositions(p) == [student |-> {s \in uni.positions : s.person = p}, teacher |-> {t \in uni.posts : t.person = p}]
HandlePersonPositionMutation(p) ==
  \/ \E s \in GetAllPositions(p).student, g \in Ids(NodesOf(uni, Group)) :
       HandleUpdateStudentPosition(s, g, ~s.active, s.subs) \/ HandleDeleteStudentPosition(s)
  \/ \E t \in GetAllPositions(p).teacher :
       HandleUpdateTeacherPosition(t, t.dept, ~t.active) \/ HandleDeleteTeacherPosition(t)

\* Appointments of the administration: the table only.
CreateAdminAppointment(p, k, l, scope) ==
  Save([uni EXCEPT !.appointments = @ \cup {NewAppointment(p, k, l, scope)}, !.next = @ + 1]) /\ Keeps
UpdateAdminAppointment(a, scope, act) ==
  Save([uni EXCEPT !.appointments = (@ \ {a}) \cup {[a EXCEPT !.scope = scope, !.active = act]}]) /\ Keeps
DeleteAdminAppointment(a) == Save([uni EXCEPT !.appointments = @ \ {a}]) /\ Keeps

HandleCreateAdminAppointment(p, k, l, scope) == RequirePerson(p) /\ CreateAdminAppointment(p, k, l, scope)
HandleUpdateAdminAppointment(a, scope, act)  == UpdateAdminAppointment(a, scope, act)
HandleDeleteAdminAppointment(a)              == DeleteAdminAppointment(a)

-----------------------------------------------------------------------------
(* Deans *)

\* A stored NULL scope is an error of the query, so there is no faculty.
GetDeanFacultyID(p) ==
  {a.scope : a \in {x \in uni.appointments :
     x.person = p /\ x.kind = "dean" /\ x.level = Faculty /\ x.active /\ x.scope # 0}}
DeanScope(p) == IF p \in uni.linked THEN GetDeanFacultyID(p) ELSE {}

\* Up from the group of the position, not from its own stream.
Up(d, id) == IF id \in Ids(d.nodes) THEN (CHOOSE n \in d.nodes : n.id = id).up ELSE 0
FacultyOf(d, s) == Up(d, Up(d, Up(d, Up(d, s.group))))
GetStudentByPosition(s, f) == FacultyOf(uni, s) = f

HandleUpdateStudent(p, s) ==
  /\ dean.pos = 0
  /\ \E f \in DeanScope(p) : GetStudentByPosition(s, f) /\ dean' = [pos |-> s.id, faculty |-> f]
  /\ UNCHANGED <<uni, drift, writes>>

(* The update by id, after the check: the group is any group, and nothing  *)
(* is enqueued.                                                            *)
DeanUpdateStudentPosition(g, act) ==
  LET old == {s \in uni.positions : s.id = dean.pos}
  IN /\ dean.pos # 0
     /\ Save([uni EXCEPT !.positions = (@ \ old)
                \cup {[s EXCEPT !.group = IF g = 0 THEN @ ELSE g, !.active = act] : s \in old}])
     /\ drift' = drift \cup {Member(s.person) : s \in old}
     /\ dean' = [pos |-> 0, faculty |-> 0]

-----------------------------------------------------------------------------
(* Audiences of notifications *)

QueryForScope(d, scope, id) ==
  {s \in d.positions : s.active /\ CASE scope = "subgroup" -> id \in s.subs
                                     [] scope = "group"    -> s.group = id
                                     [] scope = "stream"   -> s.stream = id}
ResolveStudentUsers(scope, id) == {s.person : s \in QueryForScope(uni, scope, id)} \cap uni.linked
ResolveTeacherUser(p) == p \in uni.linked /\ \E t \in uni.posts : t.person = p /\ t.active

-----------------------------------------------------------------------------
UniversityNext ==
  /\ writes < MaxWrites
  /\ \/ RunBatchSync
     \/ \E p \in Students, registered, act \in BOOLEAN, gc \in Codes :
          \/ \E sc \in Codes \cup {""}, c \in Codes : HandleImportStudents(p, registered, sc, gc, act, c)
          \/ \E c \in Codes : HandleCreateStudentManual(p, registered, gc, c)
          \/ \E dept \in Ids(NodesOf(uni, Department)) : HandleCreateTeacherManual(p, registered, dept, act)
     \/ HandleFaculty \/ HandleDepartment \/ HandleProgram \/ HandleStream \/ HandleGroup \/ HandleSubgroup
     \/ HandleCourse \/ HandleSemester
     \/ \E p \in Persons :
          \/ CreatePersonForUser(p) \/ LinkPersonToUser(p) \/ HandlePersonPositionMutation(p)
          \/ \E s \in uni.positions : HandleUpdateStudent(p, s)
          \/ \E g \in Ids(NodesOf(uni, Group)), act \in BOOLEAN, subs \in SUBSET Ids(NodesOf(uni, Subgroup)) :
               \/ HandleCreateStudentPosition(p, g, act, subs)
               \/ \E s \in uni.positions : HandleUpdateStudentPosition(s, g, act, subs)
          \/ \E dept \in Ids(NodesOf(uni, Department)), act \in BOOLEAN : HandleCreateTeacherPosition(p, dept, act)
          \/ \E k \in Kinds, l \in {0, Faculty} : \E scope \in Ids(NodesOf(uni, l)) \cup {0} :
               HandleCreateAdminAppointment(p, k, l, scope)
     \/ \E s \in uni.positions : HandleDeleteStudentPosition(s)
     \/ \E t \in uni.posts : \/ HandleDeleteTeacherPosition(t)
                             \/ \E dept \in Ids(NodesOf(uni, Department)), act \in BOOLEAN :
                                  HandleUpdateTeacherPosition(t, dept, act)
     \/ \E a \in uni.appointments : \/ HandleDeleteAdminAppointment(a)
                                    \/ \E scope \in Ids(NodesOf(uni, a.level)) \cup {0}, act \in BOOLEAN :
                                         HandleUpdateAdminAppointment(a, scope, act)
     \/ \E g \in Ids(NodesOf(uni, Group)) \cup {0}, act \in BOOLEAN : DeanUpdateStudentPosition(g, act)

UniversitySpec == UniversityInit /\ [][UniversityNext]_universityVars

-----------------------------------------------------------------------------
Followed(people) == {p \in people \ {Anonymous} : Member(p) \notin drift}

(* Whatever mix of synchronization, import, administration and deans' edits came before,   *)
(* the graph says what the tables say of every key whose last writer wrote all of it: the  *)
(* memberships of a person (and then a notification to a group or subgroup reaches exactly *)
(* its linked members), the parent of a node, the staff of a department.  The writers that *)
(* leave something out (a synchronized position among others, a dean's edit, reference     *)
(* data renamed or deleted) put the keys concerned into drift.                             *)
GraphFollowsTables ==
  /\ \A p \in Followed(uni.persons) : OfMember(uni, p) = Members(uni, p)
  /\ \A n \in NodesOf(uni, Group) \cup NodesOf(uni, Subgroup), p \in Followed(uni.linked) :
       p \in ResolveStudentUsers(IF n.level = Group THEN "group" ELSE "subgroup", n.id)
         <=> <<"member", n.level, n.code, p>> \in uni.graph
  /\ \A n \in uni.nodes : n.level # Faculty /\ Parent(n.level, n.code) \notin drift =>
       OfObject(uni, "parent", n.level, n.code) = {<<"parent", n.level, n.code, CodeOf(uni, n.up)>>}
  /\ \A n \in NodesOf(uni, Department) : StaffOf(n.code) \notin drift =>
       /\ OfObject(uni, "staff", Department, n.code) = Staff(uni, n.code)
       /\ \A t \in uni.posts : t.active /\ t.dept = n.id /\ t.person \in uni.linked => ResolveTeacherUser(t.person)
=============================================================================
