SPECIFICATION Spec
CONSTANTS
  Requests = {r1, r2, r3}
  Nobody = Nobody
  Fields = {title, limits}
  Limit = limits
  Tags = {t1, t2}
  Earlier <- MCEarlier
  Patches <- MCPatches
  MaxTags = 2
  MaxTagging = 2
  CaseCount = 2
  MaxFaults = 1
SYMMETRY StoreSymmetry
INVARIANTS
  TypeOK
  AnswersAreTrue
  SubmitSeesOneVersion
  ErrorsHaveCause
