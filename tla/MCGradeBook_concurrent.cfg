\* Three requests at a time on one student, one course and their grade.
SPECIFICATION Spec
CONSTANTS
    dean = dean
    ada = ada
    bob = bob
    None = None
    Users <- MCUsers
    Deans <- MCDeans
    Lecturers <- MCTeachers
    Teachers <- MCTeachers
    s1 = s1
    c1 = c1
    Students = {s1}
    Courses = {c1}
    low = low
    high = high
    Scores = {low, high}
    pass = pass
    merit = merit
    Letters = {pass, merit}
    r1 = r1
    r2 = r2
    r3 = r3
    Requests = {r1, r2, r3}
    MaxHistory = 3
SYMMETRY Symmetry
INVARIANTS
    TypeOK
    GradesAreOfEnrolled
    HistoryExplainsGrade
    OneInitialRecord
    OnlyEntitledWrite
PROPERTIES
    UpdateTakesEffect
