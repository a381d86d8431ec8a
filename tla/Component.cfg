SPECIFICATION Spec
CONSTANTS
  Instance = {a, b}
  Props = {p, q, r}
  Nothing = Nothing
INVARIANTS TypeOK RestIsShown
PROPERTIES FollowsLifecycle AllSettle
