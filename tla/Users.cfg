SPECIFICATION Spec
CONSTANTS
    u1 = u1
    c1 = c1
    c2 = c2
    p1 = p1
    p2 = p2
    n1 = n1
    n2 = n2
    e1 = e1
    e2 = e2
    Creates <- OneCreate
    Updates <- TwoUpdates
    Existing <- OneUser
    Names <- TwoNames
    Emails <- TwoEmails
    InitialName <- FirstName
    InitialEmail <- FirstEmail
    Blank = n1
    Unset = Unset
CHECK_DEADLOCK FALSE
INVARIANTS TypeOK UniqueUsers CreatedIsLogged PartialUpdatesSurvive
PROPERTIES Promised
