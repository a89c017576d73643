SPECIFICATION FairSpec
CONSTANTS
    Asked <- MCAsked
    Urls <- MCUrls
    Slots = {1, 2, 3}
    Tiers <- MCTiers
    MaxDeaths = 1
    Plans <- MCPlans
    Recordings <- MCRecordings
    Sections = 6
    MaxOthers = 1
    Earlier <- MCEarlier
    Jobs <- MCJobs
    Meanwhile <- MCMeanwhile
    Acts <- MCActs
    MaxActs = 2
    MaxCancels = 1
INVARIANTS CrawlAddsUp CrawlCovers DiscoveryDelivers
PROPERTIES CrawlEnds RecordingsAreWhole
CHECK_DEADLOCK FALSE
