SPECIFICATION Spec
CONSTANTS
  a = a
  b = b
  t1 = t1
  t2 = t2
  c1 = c1
  c2 = c2
  x = x
  User <- MCUser
  Admin <- MCAdmin
  Todo <- MCTodo
  Call <- MCCall
  Text <- MCText
  None = None
  Tool = {"login", "clear", "signup", "adminReplace", "adminPatch",
          "deactivate", "hardDelete", "getMe", "replaceMe", "patchMe",
          "todoRead", "todoCreate", "todoReplace", "todoPatch", "todoDelete"}
SYMMETRY CallsAlike
INVARIANTS TypeOK AnswersAreTrue LastLoginWins SupersededTokenRefused
PROPERTIES CreatorIsCaller PatchIsPartial
CHECK_DEADLOCK FALSE
