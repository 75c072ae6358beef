\* Two questions, a row and a drain over a phone that re-pairs.
SPECIFICATION Spec
CONSTANTS
    d1 = d1
    d2 = d2
    p1 = p1
    h1 = h1
    h2 = h2
    t1 = t1
    t2 = t2
    Devices = {d1, d2}
    PhoneOf <- MCPhoneOf
    First = {d1}
    Drains = {h1}
    Tools = {t1, t2}
    Items = {i1}
    MaxAnswers = 1
    Nobody = Nobody
INVARIANTS
    TypeOK
    AnswerableWhileWaiting
PROPERTIES
    OkInTime
    QuestionSpec
    MailboxSpec
SYMMETRY Symmetry
