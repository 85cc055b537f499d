SPECIFICATION Spec
CONSTANTS
  Genuine = {1, 3, 11, 12}
  NoCoin = 0
  MaxEarly = 1
  RadioTx <- MCRadioTx
  Frames = 2
  Tries = 2
  MaxNacks = 1
  MaxFaults = 2
  MaxHasty = 2
  TextTx <- MCTextTx
  Parts = 2
  Claims <- MCStrangers
  FaucetCoins = {11, 12}
  PerSender = 1
  PerAddress = 1
  MaxSends = 2
  MaxTrouble = 1
  Wallets = {"w1", "w2"}
  OwnerOf <- MCOwnerOf
  NoWallet = "none"
  Payees = {"me", "you"}
  Me = "me"
  DemoCoin = 50
  BearerCoin = 3
  ChangeCoin <- MCChangeCoin
  MaxOutbox = 2
  MaxSigned = 2
  MaxFetches = 2
INVARIANTS NobodyPaidAgain
CHECK_DEADLOCK FALSE
