CONSTANTS
    anna = anna
    ben = ben
    chest = chest
    barrel = barrel
    Players = {anna, ben}
    Places = {chest, barrel}
    Hoppers <- OneHopper
    Size <- Sizes
    MaxStack = 2
    LastWindow = 2
    Start <- Held0
    MaxDrops = 2
    MaxRequests = 3
    MaxPasses = 1
    sword = sword
    helmet = helmet
    Fighters = {anna, ben}
    Stacks = {sword, helmet}
    Worn = {helmet}
    Cursed = {}
    Bag <- Bags
    FullHealth = 2
    Grace = 1
    CombatTicks = 1
    CombatIds = 3
    CombatHits = 2
    MaxFood = 5
    FullHearts = 2
    RichFood = 4
    ExhaustAt = 2
    Exertions = {0, 1}
    LongEffect = 1
    MaxLevels = 1
    pot = pot
    gold = gold
    root = root
    kid = kid
    XpSteps = 3
    XpGains <- Gains
    XpLevels = {2, 15, 17, 20, 33}
    Laid <- Tables
    Feats = {pot, gold}
    FeatParent <- Parents
    FeatCriteria <- Criteria
    NoParent = "np"
    Keepers = {anna, ben}
    Districts = {near, far}
    HostileCap = 1
    PassiveCap = 2
    NearCap = 1
    MobIds = 2
    Lenient = 1
    Skipped = 1
    PartySizes = {2}
    MobSteps = 2
    FirstKinds = {"cube", "animal"}
    m1 = m1
    Minded = {m1}
    Habits <- HabitPairs
    MindShard <- OneShard
    Gap = 2
    Pause = 1
    OldAge = 2
    FlightTicks = 1
    Flights = 1
    Anglers = {anna, ben}
    Bobbers = 3
    LongestWait = 1
    GossipAge = 2
    TradeLimit = 3
    Subjects = {anna, ben}
    Typed <- Orders
    Lives = 2
    MaxTurns = 2
    o1 = o1
    b1 = b1
    Viewers = {anna}
    Objs = {o1}
    BarIds = {b1}
    ChannelCap = 2
    TopScore = 2
    MaxEdits = 4
    Roamers = {anna}
    FrostWalkers = {anna}
    Day = 2
    Night = 1
    Second = 1
    LongestSky = 1
    TrustLimit = 1
    MailCap = 1
    WorldSteps = 3
    Crafters = {anna, ben}
    Goods = {"log", "oak", "birch", "stick", "tool"}
    Recipes <- Book
    CraftStack = 2
    LastSlot = 5
    LaidBags <- Bags0
    LaidTables <- Tables0
    MaxCrafts = 2
SPECIFICATION AllSpec
CHECK_DEADLOCK FALSE
INVARIANTS
    GameplayTypeOK
    
    
    TrackedListed
    
    
    AnswersTrue
    BoardFollows
    WorldTold
    LaidIsCrafted
PROPERTIES
    
    
    KeepsWindow
    DeadRespawn
