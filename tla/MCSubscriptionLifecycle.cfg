CONSTANTS
    e1 = e1
    LessonCount = 2
    Cost <- MCCost
    Issued <- MCIssued
    Packages <- MCPackages
    FundingModes = {"personal_account", "installment"}
    Amounts = {5}
    Actors = {e1}
    MaxContracts = 3
    MaxMoney = 5
SPECIFICATION Spec
INVARIANTS TypeOK OneContractInForce NeverOverdrawn ValueConserved
PROPERTIES SpentStaysSpent PromiseKept
CHECK_DEADLOCK FALSE
