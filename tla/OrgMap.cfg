SPECIFICATION ImportSpec
CONSTANTS
    r1 = r1
    d1 = d1
    d2 = d2
    s1 = s1
    s2 = s2
    n1 = n1
    n2 = n2
    n3 = n3
    m1 = m1
    m2 = m2
    m3 = m3
    e1 = e1
    e2 = e2
    e3 = e3
    Directions = {r1}
    Departments = {d1, d2}
    Services = {s1, s2}
    Names = {n1, n2, n3}
    normalizeString <- MCCase
    normalizeImportOrgLabel <- MCPunctuation
    Matricules = {m1, m2, m3}
    Emails = {e1, e2, e3}
    ElsewhereEmails = {}
    Creators = {"HR", c1}
    None = None
    Gone = Gone
    Starts <- MCStarts
    MaxChanges = 1
    File <- MCFile
    FileDepartment = n1
    FileService = n2
    Commits = {c1}
    CreateBatch = 2
INVARIANT OrgMapResolves
CHECK_DEADLOCK FALSE
