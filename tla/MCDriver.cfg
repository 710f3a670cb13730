SPECIFICATION Spec
CONSTANTS
  Text <- MCText
  NoText = NoText
INVARIANTS
  Delivered
  OutputValidated
  OnlyAcceptedRuns
  OutputRunsSource
  ReportsFaults
