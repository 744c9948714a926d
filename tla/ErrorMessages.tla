----------------------------- MODULE ErrorMessages -----------------------------
(* How the web app tells a user why a transaction failed: parseError             *)
(* (apps/web/src/lib/error-parser.ts) and what the repay page does before.       *)
(*                                                                              *)
(* A message is what parseError can see of it: which of the phrases it looks for *)
(* occur, and the code, the number and the name of an error if it quotes them.   *)
EXTENDS Integers, Sequences, FiniteSets

Numbered(first, names) == [c \in first .. first + Len(names) - 1 |-> names[c - first + 1]]

(* f, and g for what f does not number. *)
Joined(f, g) == [c \in DOMAIN f \cup DOMAIN g |-> IF c \in DOMAIN f THEN f[c] ELSE g[c]]

(* ERROR_MAP *)
CoreErrors == Numbered(6000, <<
  "ProtocolPaused", "Unauthorized", "InvalidTokenTier", "TokenNotWhitelisted",
  "TokenDisabled", "LoanAmountTooLow", "LoanAmountTooHigh", "InsufficientCollateral",
  "LoanAlreadyRepaid", "LoanLiquidated", "LoanNotLiquidatable", "InvalidPriceFeed",
  "StalePriceFeed", "MathOverflow", "MathUnderflow", "DivisionByZero",
  "InvalidLoanDuration", "LtvTooHigh", "InsufficientTreasuryBalance",
  "InvalidLiquidationBonus", "LoanNotUnhealthy">>)
PoolErrors == Numbered(6021, <<
  "PriceDeviationTooHigh", "InvalidPoolAddress", "TokenAlreadyWhitelisted",
  "InvalidAdminAddress", "EmergencyModeActive", "InvalidTokenAccountOwner",
  "InsufficientTokenBalance", "InvalidFeeConfiguration", "PoolTypeMismatch",
  "ZeroPrice", "DurationTooShort", "DurationTooLong", "InvalidPoolType",
  "InvalidLoanAmount", "ReentrancyDetected", "BelowMinimumDeposit", "LoanNotFound",
  "StakingPaused", "NoRewardsToClaim", "InsufficientRewardBalance",
  "InsufficientStakeBalance">>)
RiskErrors == Numbered(6042, <<
  "SlippageExceeded", "MissingPumpfunAccounts", "MissingJupiterAccounts",
  "MissingJupiterSwapData", "InvalidBondingCurve", "AdminTransferTooEarly",
  "NoPendingAdminTransfer", "ProtocolNotPaused", "CollateralValueTooLow",
  "SlippageTooHigh", "TokenExposureTooHigh", "UserExposureTooHigh",
  "SingleLoanTooLarge", "InvalidFeeSplit", "InvalidPoolData",
  "FeatureTemporarilyDisabled", "CannotChangeTokenWithActiveStakes",
  "InvalidTokenMint", "InvalidTokenAccount">>)
StakingErrors == Numbered(6070, <<
  "InvalidEpochDuration", "InvalidAmount", "InsufficientStakedBalance",
  "EpochNotEnded", "DistributionNotComplete", "NoEligibleStakers",
  "InvalidAccountPairs", "InvalidJupiterProgram", "InvalidVault",
  "StakingNotPaused", "StakeAmountTooLow">>)
AccountErrors == Numbered(6081, <<
  "MaxLoansReached", "InvalidLiquidatorAddress", "UnauthorizedLiquidator",
  "TokenBlacklisted", "InvalidPriceAuthority", "PriceSignatureExpired",
  "InvalidPriceSignature", "InvalidAccountOwner", "InvalidAccountData",
  "InvalidDiscriminator", "InvalidPDA", "InvalidStakeOwner", "PumpfunNotMigrated",
  "InvalidTokenProgram", "MissingPumpSwapVaults", "InvalidPumpSwapVault">>)

ERROR_MAP ==
  Joined(CoreErrors, Joined(PoolErrors, Joined(RiskErrors, Joined(StakingErrors, AccountErrors))))
Named == {ERROR_MAP[c] : c \in DOMAIN ERROR_MAP}

(* The enum of the program, by the numbers it is written with: those of ERROR_MAP *)
(* but for one, and four more.                                                  *)
NewErrors == Numbered(6097, <<"InvalidPoolOwner", "PoolTokenMismatch", "InvalidQuoteMint",
                              "InvalidPoolData">>)
LendingError == Joined([ERROR_MAP EXCEPT ![6056] = "InvalidExchangeData"], NewErrors)

(* Anchor's #[error_code] adds its offset to the number of a variant, and these   *)
(* have it already.                                                             *)
Emitted(d) == d + 6000

(* Errors of Anchor itself, and of the token program, which the parser lacks.    *)
Foreign == [c \in {2006, 3012} |-> IF c = 3012 THEN "AccountNotInitialized" ELSE "ConstraintSeeds"]
--------------------------------------------------------------------------------
(* What may fail, and how the message comes about.                              *)
(*   simulated  sendRawTransaction quotes the last lines of the program's log    *)
(*   bare       the same without the log, as wallets pass it on                  *)
(*   landed     fastConfirmTransaction quotes the status of the transaction      *)
(*   own        the page, the API or the wallet                                  *)
(* stray: digits in it, of compute units or amounts, happen to read 500.         *)
Own == {"LoanPreparationFailed", "TokenNotConfigured", "PriceFetchFailed", "RateLimitExceeded",
        "SystemProtection", "ServerError", "NetworkError", "UserRejected",
        "InsufficientTokens", "InsufficientSOL", "TransactionExpired", "Timeout"}

Failure ==
       [how : {"simulated", "bare", "landed"}, stray : BOOLEAN,
        code : {Emitted(d) : d \in DOMAIN LendingError} \cup DOMAIN Foreign, own : {"-"}]
  \cup [how : {"own"}, stray : BOOLEAN, code : {0}, own : Own]

NameOf(code) == IF code \in DOMAIN Foreign THEN Foreign[code] ELSE LendingError[code - 6000]

(* The phrases parseError looks for, each by what it takes it for, in its order:  *)
(* some before it looks for a code, some after.                                 *)
Before == <<"LoanPreparationFailed", "TokenNotConfigured", "PriceFetchFailed",
            "RateLimitExceeded", "SystemProtection", "ServerError", "NetworkError">>
After == <<"UserRejected", "InsufficientTokens", "InsufficientSOL", "TransactionExpired",
           "Timeout", "Simulation">>

Message(f) ==
  [phrases |-> (IF f.stray THEN {"ServerError"} ELSE {}) \cup
               (IF f.how \in {"simulated", "bare"} THEN {"Simulation"} ELSE {}) \cup
               (IF f.how = "own" THEN {f.own} ELSE {}),
   hex     |-> IF f.how \in {"simulated", "bare"} THEN f.code ELSE 0,
   number  |-> IF f.how = "simulated" THEN f.code ELSE 0,
   name    |-> IF f.how = "simulated" THEN NameOf(f.code) ELSE "-",
   digits  |-> f.code]

Occurring(list, m) == {i \in DOMAIN list : list[i] \in m.phrases}
First(list, m) == list[CHOOSE i \in Occurring(list, m) : \A j \in Occurring(list, m) : i <= j]

(* A failed simulation that quotes a code not found before is parsed again, and   *)
(* again not found: the recursion ends in a RangeError.                         *)
Simulation(m) == IF m.hex # 0 THEN "RangeError" ELSE "SimulationFailed"

parseErrorByPhrase(m) ==          \* fault: every phrase is looked for first
  IF Occurring(Before \o After, m) # {}
  THEN LET p == First(Before \o After, m) IN IF p = "Simulation" THEN Simulation(m) ELSE p
  ELSE IF m.name \in Named THEN m.name ELSE "UnknownError"

parseError(m) ==
  IF Occurring(Before, m) # {} THEN First(Before, m)
  ELSE IF m.hex \in DOMAIN ERROR_MAP THEN ERROR_MAP[m.hex]
  ELSE IF m.number \in DOMAIN ERROR_MAP THEN ERROR_MAP[m.number]
  ELSE IF m.name \in Named THEN m.name
  ELSE IF Occurring(After, m) = {} THEN "UnknownError"
  ELSE LET p == First(After, m) IN IF p = "Simulation" THEN Simulation(m) ELSE p

(* The repay page looks for the code, the number and the name first. *)
IsAlreadyRepaidByEnum(m) == m.digits = 6008     \* fault: the number in the enum
IsAlreadyRepaid(m) == m.digits = 12008
--------------------------------------------------------------------------------
VARIABLES page, failure, told
vars == <<page, failure, told>>

Init ==
  /\ page \in {"borrow", "repay"}
  /\ failure \in Failure
  /\ told = "-"

(* onError of the mutations; on the repay page what fails while it is sent and    *)
(* confirmed is caught, and a loan already repaid is synced (syncLoanStatus) and  *)
(* taken for a success, or said to be repaid if that fails.                     *)
Synced == page = "repay" /\ failure.how # "own" /\ IsAlreadyRepaid(Message(failure))

TakeForRepaid == told = "-" /\ Synced /\ told' \in {"AlreadyRepaid", "UnknownError"}
ShowError == told = "-" /\ ~Synced /\ told' = parseError(Message(failure))

Next == (TakeForRepaid \/ ShowError) /\ UNCHANGED <<page, failure>>

Spec == Init /\ [][Next]_vars
--------------------------------------------------------------------------------
Shown == told # "-" /\ told # "AlreadyRepaid"

(* An error of the program whose name the table has, and a failure of the page's   *)
(* own, is told as what it is when its log comes along and no stray digits read    *)
(* as a server error; and the repay page takes a loan for repaid exactly when the  *)
(* program says so, log or no log (error-parser.ts:627-850, repay/[id].tsx:82).    *)
ErrorsAreTold ==
  /\ Shown /\ ~failure.stray /\ failure.how = "simulated" /\ NameOf(failure.code) \in Named
       /\ ~(page = "repay" /\ failure.code = Emitted(6008)) => told = NameOf(failure.code)
  /\ Shown /\ ~failure.stray /\ failure.how = "own" => told = failure.own
  /\ told = "AlreadyRepaid" => NameOf(failure.code) = "LoanAlreadyRepaid"
  /\ Shown /\ page = "repay" /\ failure.how # "own" /\ told # "UnknownError"
       => NameOf(failure.code) # "LoanAlreadyRepaid"
================================================================================
