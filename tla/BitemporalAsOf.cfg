\* A past instant is not yet settled: an as-of answer may still change.
SPECIFICATION Spec
CONSTANTS
  Transactions = {t1, t2}
  Open = Open
  Instants = {0,1,2,3}
PROPERTY PastAsOfIsFinal

