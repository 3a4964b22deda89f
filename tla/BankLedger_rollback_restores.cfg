SPECIFICATION LedgerSpec
CONSTANTS
  Accounts = {a, b}
  Amounts = {1, 2}
  Blank = Blank
  MaxPostings = 3
  Modulus = 20
  MaxCalls = 4
PROPERTY RollbackRestores
