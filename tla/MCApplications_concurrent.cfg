\* Two requests at a time on two applications.
SPECIFICATION Spec
CONSTANTS
    applicant = applicant
    admin = admin
    dean = dean
    None = None
    Users <- MCUsers
    Submitters <- MCSubmitters
    Reviewers <- MCReviewers
    p1 = p1
    i1 = i1
    i2 = i2
    r1 = r1
    r2 = r2
    Programs = {p1}
    AppIds = {i1, i2}
    Requests = {r1, r2}
SYMMETRY Symmetry
INVARIANTS
    TypeOK
    EnrolledIsStudent
    OneOpenApplication
    SomeoneProceeds
PROPERTIES
    LifeCycle
