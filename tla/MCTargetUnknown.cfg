CONSTANTS
    e1 = e1  e2 = e2  e3 = e3  e4 = e4  u = u  Null = Null
    Values <- MCValues
    Empty = ""
    Blank = {"", " "}
    StartsWith <- MCStartsWith
    Includes <- MCIncludes
    Patterns = {"ab"}
    Matches <- MCMatches
    Known <- MCKnown
    Dotted = {"M.Name"}
    AppTypes = {"company", "partner"}
    CategoriesOf <- MCCategories
    BuiltInDefs <- MCBuiltIn
    OfferedKeys = {"MsgType", "M.Name"}
    RuleLists <- MCRuleLists
    RowValues = {"", "ab"}
    MaxRows = 2
    MaxEdits = 2
    MaxDefs = 2
    Messages <- MCMessages
SPECIFICATION Spec
INVARIANT UnknownIsDiscarded
CHECK_DEADLOCK FALSE
