CONSTANTS
    a1 = a1  a2 = a2  g1 = g1
    wolf = wolf  Wolf = Wolf  fox = fox  admin = admin
    b1 = b1  b2 = b2
    Addresses <- MCAddresses
    Googles <- MCGoogles
    NoGoogle = nogoogle
    GoogleAddress <- MCGoogleAddress
    Names <- MCNames
    NoName = noname
    Fold <- MCFold
    Reserved <- MCReserved
    Settled <- MCSettled
    Browsers <- MCBrowsers
    Clicks = {c1, c2}
    MaxLinks = 1
    MaxSubmits = 3
    MaxLoads = 1
    MaxMishaps = 1
SPECIFICATION Spec
SYMMETRY Symmetry
INVARIANTS
    TypeOK
    
    ConfirmedByProof
    LinkTakesEffect
    
CHECK_DEADLOCK FALSE
