SPECIFICATION AttendedSpec
CONSTANTS
  NoItem = NoItem
  Items = {i1, i2}
  Users <- AllUsers
  MaxAsks = 2
  MaxFailures = 1
INVARIANTS TypeOK LookUpFindsWorker QuestionsAnswered QuestionOutlivesDialog
PROPERTIES CancelHitsItsItem ItemIsGivenBack
CHECK_DEADLOCK FALSE
