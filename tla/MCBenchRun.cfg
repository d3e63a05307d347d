\* Two benchmark runs into one directory.
SPECIFICATION Spec
CONSTANTS
  Invocations <- MCInvocations
  Outcome <- MCOutcome
  Lexical <- MCLexical
  IndexedFiles <- MCIndexedFiles
  Slug <- MCSlug
  Runs <- MCRuns
INVARIANTS VerdictsAreSound ArtifactsAreOfTheRun BaselineIsFair
