SPECIFICATION FairSpec
CONSTANTS
    iri = iri
    literal = literal
    xsd_string = xsd_string
    i1 = i1
    i2 = i2
    l1 = l1
    Kinds <- MCKinds
    Views <- MCViews
    KindOf <- MCKindOf
    Reserved <- MCReserved
    FirstId <- MCFirstId
    Threads = {t1, t2}
    NoThread = NoThread
INVARIANTS TypeOK Consistent LookupSound ResolveRight SizeBetween
PROPERTIES DictionarySpec ReadersReturn
