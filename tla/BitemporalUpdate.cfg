\* All of the safety properties, over every interleaving of three updaters.
SPECIFICATION Spec
CONSTANTS
  Transactions = {t1, t2, t3}
  Open = Open
  Instants = {0,1,2,3,4,5}
SYMMETRY TransactionSymmetry
INVARIANTS
  TypeOK
  OneVersionAsOf
PROPERTIES
  ImplementsVersionChain
  SettledAsOfIsFinal
