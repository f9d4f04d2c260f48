\* The statements whose combinations the checkers judge rightly; Documents has others.
CONSTANTS
  Context <- MCContext
  Others <- MCNone
  Vars <- MCVars
  Args <- MCArgs
  Outer <- MCOuter
  Vocabulary <- MCVocabulary
  MaxStatements = 4
  Words = {"s of nums", "s of pr.1", "s of nums[1]", "bx.1 of nums", "s = bx.1", "bx.1 = s",
    "t of i", "t = s", "t = bx.1", "t of s[1]", "t of loc", "u of nums",
    "s of loc", "s of i", "s = t", "s of prs",
    "fill(nums, s)", "copy(nums[1], s[1])", "copy(bx.2, s[1])", "copy(pr, s[1])",
    "divide(pr.1, pr.2, s[1])", "swap(pr, s[1])", "pack(bx, nums)", "fill(loc, t)",
    "fill(nums, t)", "sort(nums, u)", "merge(s, t)", "look(u, nums)", "copy(t[1], u[1])"}
SPECIFICATION Spec
INVARIANTS TypeOK NoDangling CallsDisjoint ExactVerdict AcceptedCompiles
CHECK_DEADLOCK FALSE
