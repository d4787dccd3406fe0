SPECIFICATION Spec
CONSTANTS
    None = None
    Providers = {1, 2}
    Capabilities <- TheCapabilities
    Exchanges <- AllExchanges
    Levels = {"public", "project"}
    Identity <- TheOperation
    Attempts = {"first", "second"}
    Configs <- Setups
INVARIANTS
    TransportsAgree AnswerTellsWhatWasDone PrivateStaysHome FarClientsNeedTheToken
    OwnRetriesRun NothingForgedRuns
    SpendNeedsConsent FreeFirst ReasonsComplete LayersAgree
