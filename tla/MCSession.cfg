CONSTANTS
    terms = terms
    eng = eng
    eng2 = eng2
    plain = plain
    local = local
    remote = remote
    ann = ann
    bob = bob
    anonymous = anonymous
    staff = staff
    word = word
    prefix = prefix
    short = short
    m1 = m1
    m2 = m2
    m3 = m3
    Null = Null
    NoUser = NoUser
    AclTable <- McAclTable
    DbSeq <- McDbSeq
    NameOf <- McNameOf
    ModuleOf <- McModuleOf
    NoDbModules = {m3}
    DbAcl <- McDbAcl
    GlobalAcl = 1
    ModLang <- McModLang
    LangConfigured = {eng}
    Client <- McClient
    User = {ann, bob}
    Anon = anonymous
    GroupsOf <- McGroupsOf
    AnonGroups = Null
    LangArgs <- McLangArgs
    Query = {word, prefix, short}
    MatchQuery = {prefix, short}
    Denied = {short}
    Hits <- McHits
    MaxSession = 2
    MaxCommand = 3
    MaxFault = 2
SPECIFICATION Spec
INVARIANTS
    TypeOK
    VisibilityFresh
    Usable
    SessionIdentity
    FindMatchesShow
    AnswersEntitled
    TermsAsDocumented
CHECK_DEADLOCK FALSE
