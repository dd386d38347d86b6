\* Two requests in two containers: two handlers each, a spare next() and two
\* calls of methods of res that may fall to either request.
CONSTANTS
  Requests = {r1, r2}
  Containers = {c1, c2}
  N = 2
  MaxNext = 3
  MaxOps = 2
  None = None
SPECIFICATION Spec
INVARIANTS TypeOK ReplyIsOwn DelegationOrder
PROPERTY RepliedIsAnswered
\* The last request may have been answered.
CHECK_DEADLOCK FALSE
