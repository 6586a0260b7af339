CONSTANTS
  Unreadable = Unreadable
  MaxIssued = 3
  MaxSuccesses = 2
  Objects = 2
  MaxDamage = 1
SPECIFICATION FairSpec
INVARIANT TypeOK
INVARIANT ReopenAdmits
INVARIANT IdleIsSettled
INVARIANT SelectableIsDurable
INVARIANT LiveAnswersAgree
INVARIANT AuthorizedAnswersAgree
PROPERTY OutcomesFinal
PROPERTY ImplementsPromise
PROPERTY RecoversWhenQuiet
